---- MODULE Spec2Model ----
(***************************************************************************)
(* The ASM -> PIL lowering engine of src/src/asm_compiler/mod.rs           *)
(* (ASMPILConverter).  The converter is a single pass over the assembly    *)
(* statements; one action of the model handles one statement of the        *)
(* source, and a final action does what convert does once the source is    *)
(* consumed.                                                               *)
(*                                                                         *)
(* Strings are sequences of one-character strings, so that format! is      *)
(* concatenation and BTreeMap iteration is the byte order of the keys.     *)
(* Option<T> is a sequence of length 0 (None) or 1 (Some).                 *)
(* Source positions (the `start` fields) are not modelled.                 *)
(***************************************************************************)
EXTENDS Integers, Sequences, FiniteSets, TLC

(***************************************************************************)
(* Bounds of the model.                                                    *)
(***************************************************************************)
\* number of assembly statements of one source (after the degree statement)
MaxStmts == 5

\* number of assembly statements of a source that is compiled twice
MaxSource == 4

\* number of code lines of a source whose tables are read
MaxLines == 2

(***************************************************************************)
(* Strings.                                                                *)
(***************************************************************************)
\* the characters that occur in names, in ASCII order
AsciiOrder ==
    <<"A", "B", "X", "_",
      "a", "b", "c", "d", "e", "f", "g", "h", "i", "j", "k", "l", "m",
      "n", "o", "p", "q", "r", "s", "t", "u", "v", "w", "x", "y", "z">>

Ord(ch) == CHOOSE k \in 1..Len(AsciiOrder) : AsciiOrder[k] = ch

\* s < t as Rust's Ord for String (lexicographic by bytes)
LexLess(s, t) ==
    \E k \in 1..Len(t) :
        /\ \A j \in 1..(k - 1) : j <= Len(s) /\ s[j] = t[j]
        /\ \/ k = Len(s) + 1
           \/ k <= Len(s) /\ Ord(s[k]) < Ord(t[k])

\* the keys of a BTreeMap, in iteration order
RECURSIVE SortedSeq(_)
SortedSeq(S) ==
    IF S = {} THEN <<>>
    ELSE LET m == CHOOSE x \in S : \A y \in S \ {x} : LexLess(x, y)
         IN  <<m>> \o SortedSeq(S \ {m})

Keys(map) == SortedSeq(DOMAIN map)

EmptyMap == [k \in {} |-> <<>>]

\* BTreeMap::insert / HashMap::insert: an existing key is overwritten
Insert(map, key, val) ==
    [k \in DOMAIN map \cup {key} |-> IF k = key THEN val ELSE map[k]]

None == <<>>
Some(x) == <<x>>
IsSome(o) == o # <<>>
Unwrap(o) == o[1]

Range(seq) == {seq[k] : k \in 1..Len(seq)}

RECURSIVE Concat(_)
Concat(seqs) == IF seqs = <<>> THEN <<>> ELSE Head(seqs) \o Concat(Tail(seqs))

s_underscore == <<"_">>
s_first_step == <<"f", "i", "r", "s", "t", "_", "s", "t", "e", "p">>
s_line == <<"l", "i", "n", "e">>
s_i == <<"i">>
s_Assembly == <<"A", "s", "s", "e", "m", "b", "l", "y">>
s_p_ == <<"p", "_">>
s_reg_write_ == <<"r", "e", "g", "_", "w", "r", "i", "t", "e", "_">>
s_instr_ == <<"i", "n", "s", "t", "r", "_">>
s_param_ == <<"_", "p", "a", "r", "a", "m", "_">>
s_const == <<"_", "c", "o", "n", "s", "t">>
s_read_free == <<"_", "r", "e", "a", "d", "_", "f", "r", "e", "e">>
s_free_value == <<"_", "f", "r", "e", "e", "_", "v", "a", "l", "u", "e">>
s_read_ == <<"r", "e", "a", "d", "_">>
s_label == <<"l", "a", "b", "e", "l">>

(***************************************************************************)
(* Expression builders.                                                    *)
(***************************************************************************)
direct_reference(name) ==
    [tag |-> "PolynomialReference", name |-> name, next |-> FALSE]

next_reference(name) ==
    [tag |-> "PolynomialReference", name |-> name, next |-> TRUE]

build_binary_expr(left, op, right) ==
    [tag |-> "BinaryOperation", left |-> left, op |-> op, right |-> right]

build_mul(left, right) == build_binary_expr(left, "Mul", right)

build_sub(left, right) == build_binary_expr(left, "Sub", right)

build_add(left, right) == build_binary_expr(left, "Add", right)

build_unary_expr(op, exp) == [tag |-> "UnaryOperation", op |-> op, expr |-> exp]

build_number(value) == [tag |-> "Number", value |-> value]

FreeInput(e) == [tag |-> "FreeInput", expr |-> e]

Tuple(items) == [tag |-> "Tuple", items |-> items]

String(str) == [tag |-> "String", value |-> str]

\* Iterator::reduce(f) over a non-empty sequence (a left fold)
RECURSIVE ReduceAdd(_)
ReduceAdd(es) ==
    IF Len(es) = 1 THEN es[1]
    ELSE build_add(ReduceAdd(SubSeq(es, 1, Len(es) - 1)), es[Len(es)])

witness_column(name, def) ==
    [kind |-> "PolynomialCommitDeclaration", name |-> name, def |-> def]

PolynomialIdentity(e) == [kind |-> "PolynomialIdentity", expr |-> e]

\* pol constant name = [values] + [0]*
ConstantArray(name, values) ==
    [kind |-> "PolynomialConstantDefinition", name |-> name,
     def |-> [kind |-> "Array", values |-> values, pad_with_zeroes |-> TRUE]]

SelectedExpressions(selector, expressions) ==
    [selector |-> selector, expressions |-> expressions]

extract_update(expr) ==
    IF expr.tag = "BinaryOperation" /\ expr.op = "Sub"
       /\ expr.left.tag = "PolynomialReference" /\ expr.left.next
    THEN <<Some(expr.left.name), expr.right>>
    ELSE <<None, expr>>

substitute_string(input, substitution) ==
    IF input \in DOMAIN substitution THEN substitution[input] ELSE input

RECURSIVE substitute(_, _)
substitute(input, substitution) ==
    CASE input.tag = "PolynomialReference" ->
            [input EXCEPT !.name = substitute_string(input.name, substitution)]
      [] input.tag = "BinaryOperation" ->
            build_binary_expr(substitute(input.left, substitution), input.op,
                              substitute(input.right, substitution))
      [] input.tag = "UnaryOperation" ->
            build_unary_expr(input.op, substitute(input.expr, substitution))
      [] input.tag = "Tuple" ->
            Tuple([k \in 1..Len(input.items) |->
                      substitute(input.items[k], substitution)])
      [] OTHER -> input

substitute_vec(input, substitution) ==
    [k \in 1..Len(input) |-> substitute(input[k], substitution)]

substitute_selected_exprs(input, substitution) ==
    SelectedExpressions(
        IF IsSome(input.selector)
        THEN Some(substitute(Unwrap(input.selector), substitution))
        ELSE None,
        substitute_vec(input.expressions, substitution))

(***************************************************************************)
(* Register.                                                               *)
(***************************************************************************)
Register(conditioned_updates, default_update, is_assignment) ==
    [conditioned_updates |-> conditioned_updates,
     default_update |-> default_update,
     is_assignment |-> is_assignment]

\* a variant of update_expression that leaves out the seed of the conditions
update_expression_unseeded(reg) ==
    LET cu == SelectSeq(reg.conditioned_updates,
                        LAMBDA u : u[1] # next_reference(s_first_step))
        updates == ReduceAdd([k \in 1..Len(cu) |-> build_mul(cu[k][1], cu[k][2])])
        default_condition ==
            build_sub(build_number(1), ReduceAdd([k \in 1..Len(cu) |-> cu[k][1]]))
    IN  IF Len(cu) = 0 THEN reg.default_update
        ELSE IF reg.default_update = None THEN Some(updates)
        ELSE Some(build_add(updates,
                            build_mul(default_condition, Unwrap(reg.default_update))))

\* a variant of update_expression that sums the first conditioned update only
update_expression_first_update(reg) ==
    LET cu == reg.conditioned_updates
        updates == build_mul(cu[1][1], cu[1][2])
        default_condition ==
            build_sub(build_number(1), ReduceAdd([k \in 1..Len(cu) |-> cu[k][1]]))
    IN  IF Len(cu) = 0 THEN reg.default_update
        ELSE IF reg.default_update = None THEN Some(updates)
        ELSE Some(build_add(updates,
                            build_mul(default_condition, Unwrap(reg.default_update))))

\* Register::update_expression
update_expression(reg) ==
    LET cu == reg.conditioned_updates
        updates == ReduceAdd([k \in 1..Len(cu) |-> build_mul(cu[k][1], cu[k][2])])
        default_condition ==
            build_sub(build_number(1), ReduceAdd([k \in 1..Len(cu) |-> cu[k][1]]))
    IN  IF Len(cu) = 0 THEN reg.default_update
        ELSE IF reg.default_update = None THEN Some(updates)
        ELSE Some(build_add(updates,
                            build_mul(default_condition, Unwrap(reg.default_update))))

(***************************************************************************)
(* ASMPILConverter: the operations, as functions of the converter c.       *)
(* A panic leaves the converter as it was and sets c.panicked.             *)
(***************************************************************************)
\* ASMPILConverter::new (Default::default())
new ==
    [degree_exponent |-> 0,
     pil |-> <<>>,
     pc_name |-> None,
     registers |-> EmptyMap,
     instructions |-> EmptyMap,
     code_lines |-> <<>>,
     line_lookup |-> <<>>,
     program_constant_names |-> <<>>,
     panicked |-> FALSE]

Panic(c) == [c EXCEPT !.panicked = TRUE]

\* a variant of IsPowerOfTwo that does not take 1 for a power of two
IsPowerOfTwo_above_one(n) == n \in {2, 4, 8, 16, 32, 64, 128, 256, 512, 1024}

IsPowerOfTwo(n) == n \in {1, 2, 4, 8, 16, 32, 64, 128, 256, 512, 1024}

ILog2(n) == CHOOSE e \in 0..10 : 2 ^ e <= n /\ n < 2 ^ (e + 1)

set_degree(c, degree) ==
    IF ~IsPowerOfTwo(degree) THEN Panic(c)
    ELSE [c EXCEPT !.degree_exponent = ILog2(degree)]

degree(c) == 2 ^ c.degree_exponent

assignment_registers(c) ==
    SelectSeq(Keys(c.registers), LAMBDA n : c.registers[n].is_assignment)

\* a variant of regular_registers that leaves out the PC
regular_registers_without_pc(c) ==
    SelectSeq(Keys(c.registers),
              LAMBDA n : ~c.registers[n].is_assignment /\ c.pc_name # Some(n))

regular_registers(c) ==
    SelectSeq(Keys(c.registers), LAMBDA n : ~c.registers[n].is_assignment)

\* a variant of create_witness_fixed_pair that puts the new pair first
create_witness_fixed_pair_first(c, name) ==
    LET fixed_name == s_p_ \o name
    IN  [c EXCEPT !.pil = Append(@, witness_column(name, None)),
                  !.line_lookup = <<<<name, fixed_name>>>> \o @,
                  !.program_constant_names = Append(@, fixed_name)]

create_witness_fixed_pair(c, name) ==
    LET fixed_name == s_p_ \o name
    IN  [c EXCEPT !.pil = Append(@, witness_column(name, None)),
                  !.line_lookup = Append(@, <<name, fixed_name>>),
                  !.program_constant_names = Append(@, fixed_name)]

RECURSIVE create_witness_fixed_pairs(_, _)
create_witness_fixed_pairs(c, names) ==
    IF names = <<>> THEN c
    ELSE create_witness_fixed_pairs(create_witness_fixed_pair(c, Head(names)),
                                    Tail(names))

first_row_identity(name) ==
    PolynomialIdentity(build_mul(direct_reference(s_first_step), direct_reference(name)))

\* the (first_step', 0) seed of the conditioned updates
first_step_update == <<next_reference(s_first_step), build_number(0)>>

handle_register_declaration(c, flags, name) ==
    LET insert(cc, cu, def) ==
            [cc EXCEPT
               !.registers = Insert(@, name, Register(cu, def, flags = Some("IsAssignment"))),
               !.pil = Append(@, witness_column(name, None))]
    IN  CASE flags = Some("IsPC") ->
               IF c.pc_name # None THEN Panic(c)
               ELSE insert([c EXCEPT !.pc_name = Some(name),
                                     !.line_lookup = Append(@, <<name, s_line>>),
                                     !.pil = Append(@, first_row_identity(name))],
                           <<first_step_update>>,
                           Some(build_add(direct_reference(name), build_number(1))))
          [] flags = Some("IsAssignment") ->
               insert(c, <<>>, None)
          [] OTHER ->
               LET assignment_regs == assignment_registers(c)
                   write_flag(reg) == s_reg_write_ \o reg \o s_underscore \o name
                   flagsOf == [k \in 1..Len(assignment_regs) |->
                                  write_flag(assignment_regs[k])]
                   c1 == [c EXCEPT !.pil = Append(@, first_row_identity(name))]
                   c2 == create_witness_fixed_pairs(c1, flagsOf)
               IN  insert(c2,
                          <<first_step_update>> \o
                          [k \in 1..Len(assignment_regs) |->
                              <<direct_reference(flagsOf[k]),
                                direct_reference(assignment_regs[k])>>],
                          Some(direct_reference(name)))

(***************************************************************************)
(* Instruction declarations.                                               *)
(***************************************************************************)
InstructionParam(name, param_type, assignment_reg) ==
    [name |-> name, param_type |-> param_type, assignment_reg |-> assignment_reg]

IsLiteralParam(p) == p.assignment_reg[1] = None /\ p.assignment_reg[2] = None

\* one element of an instruction body, applied to the converter
handle_body_element(c, el, instruction_flag, substitutions) ==
    IF el.kind = "Expression"
    THEN LET upd == extract_update(substitute(el.expr, substitutions))
         IN  IF IsSome(upd[1])
             THEN LET var == Unwrap(upd[1])
                  IN  IF var \notin DOMAIN c.registers THEN Panic(c)
                      ELSE [c EXCEPT !.registers[var].conditioned_updates =
                                Append(@, <<direct_reference(instruction_flag), upd[2]>>)]
             ELSE [c EXCEPT !.pil = Append(@,
                     PolynomialIdentity(build_mul(direct_reference(instruction_flag), upd[2])))]
    ELSE IF IsSome(el.left.selector) THEN Panic(c)
    ELSE LET left == SelectedExpressions(Some(direct_reference(instruction_flag)),
                        substitute_vec(el.left.expressions, substitutions))
             right == substitute_selected_exprs(el.right, substitutions)
         IN  [c EXCEPT !.pil = Append(@,
                 [kind |-> IF el.op = "In" THEN "PlookupIdentity" ELSE "PermutationIdentity",
                  left |-> left, right |-> right])]

RECURSIVE handle_body(_, _, _, _)
handle_body(c, body, instruction_flag, substitutions) ==
    IF body = <<>> \/ c.panicked THEN c
    ELSE handle_body(handle_body_element(c, Head(body), instruction_flag, substitutions),
                     Tail(body), instruction_flag, substitutions)

handle_instruction_def(c, body, name, params) ==
    LET instruction_flag == s_instr_ \o name
        literals == SelectSeq(params, IsLiteralParam)
        param_col_name(p) == s_instr_ \o name \o s_param_ \o p.name
        c1 == create_witness_fixed_pairs(
                  create_witness_fixed_pair(c, instruction_flag),
                  [k \in 1..Len(literals) |-> param_col_name(literals[k])])
        substitutions ==
            [n \in {literals[k].name : k \in 1..Len(literals)} |->
                s_instr_ \o name \o s_param_ \o n]
        c2 == handle_body(c1, body, instruction_flag, substitutions)
    IN  IF c2.panicked THEN c2
        ELSE [c2 EXCEPT !.instructions = Insert(@, name, [params |-> params])]

(***************************************************************************)
(* The affine-value normaliser.                                            *)
(***************************************************************************)
Component_Register(name) == [tag |-> "Register", name |-> name]
Component_Constant == [tag |-> "Constant"]
Component_FreeInput(e) == [tag |-> "FreeInput", expr |-> e]

\* the normaliser's result: a term list, or a panic
Terms(ts) == [panicked |-> FALSE, terms |-> ts]
NoTerms == [panicked |-> TRUE, terms |-> <<>>]

add_assignment_value(left, right) == left \o right

negate_assignment_value(expr) ==
    [k \in 1..Len(expr) |-> <<0 - expr[k][1], expr[k][2]>>]

\* a variant of IsSingleConstant that takes any list of Constant terms
IsSingleConstant_all_constants(ts) ==
    ts # <<>> /\ \A k \in 1..Len(ts) : ts[k][2] = Component_Constant

IsSingleConstant(ts) == Len(ts) = 1 /\ ts[1][2] = Component_Constant

\* a variant of scale_assignment_value that leaves the coefficients as they are
scale_assignment_value_unscaled(f, ts) == ts

scale_assignment_value(f, ts) == [k \in 1..Len(ts) |-> <<f * ts[k][1], ts[k][2]>>]

RECURSIVE process_assignment_value(_)
process_assignment_value(value) ==
    CASE value.tag = "PolynomialReference" ->
            IF value.next THEN NoTerms
            ELSE Terms(<< <<1, Component_Register(value.name)>> >>)
      [] value.tag = "Number" -> Terms(<< <<value.value, Component_Constant>> >>)
      [] value.tag = "FreeInput" -> Terms(<< <<1, Component_FreeInput(value.expr)>> >>)
      [] value.tag = "BinaryOperation" ->
            LET left == process_assignment_value(value.left)
                right == process_assignment_value(value.right)
            IN  IF left.panicked \/ right.panicked THEN NoTerms
                ELSE CASE value.op = "Add" ->
                            Terms(add_assignment_value(left.terms, right.terms))
                       [] value.op = "Sub" ->
                            Terms(add_assignment_value(left.terms,
                                      negate_assignment_value(right.terms)))
                       [] value.op = "Mul" ->
                            IF IsSingleConstant(left.terms)
                            THEN Terms(scale_assignment_value(left.terms[1][1], right.terms))
                            ELSE IF IsSingleConstant(right.terms)
                            THEN Terms(scale_assignment_value(right.terms[1][1], left.terms))
                            ELSE NoTerms
                       [] OTHER -> NoTerms
      [] value.tag = "UnaryOperation" ->
            LET inner == process_assignment_value(value.expr)
            IN  IF value.op # "Minus" \/ inner.panicked THEN NoTerms
                ELSE Terms(negate_assignment_value(inner.terms))
      [] OTHER -> NoTerms

(***************************************************************************)
(* Code lines.                                                             *)
(***************************************************************************)
CodeLine(write_regs, value, label, instruction, instruction_literal_args) ==
    [write_regs |-> write_regs, value |-> value, label |-> label,
     instruction |-> instruction,
     instruction_literal_args |-> instruction_literal_args]

handle_label(c, name) ==
    [c EXCEPT !.code_lines = Append(@, CodeLine(EmptyMap, EmptyMap, Some(name), None, <<>>))]

handle_assignment(c, write_regs, assign_reg, value) ==
    IF Len(write_regs) > 1 \/ assign_reg = None THEN Panic(c)
    ELSE LET v == process_assignment_value(value)
             reg == Unwrap(assign_reg)
         IN  IF v.panicked THEN Panic(c)
             ELSE [c EXCEPT !.code_lines = Append(@,
                      CodeLine(Insert(EmptyMap, reg, write_regs),
                               Insert(EmptyMap, reg, v.terms), None, None, <<>>))]

\* the state of the loop over (parameter, argument) pairs of handle_instruction
LoopState(value, instruction_literal_args, write_regs, panicked) ==
    [value |-> value, instruction_literal_args |-> instruction_literal_args,
     write_regs |-> write_regs, panicked |-> panicked]

\* one iteration of the loop of handle_instruction
bind_argument(st, p, a) ==
    LET fail == [st EXCEPT !.panicked = TRUE]
    IN  IF IsSome(p.assignment_reg[1])
        THEN LET reg == Unwrap(p.assignment_reg[1])
                 v == process_assignment_value(a)
             IN  IF reg = None \/ Unwrap(reg) \in DOMAIN st.value \/ v.panicked THEN fail
                 ELSE [st EXCEPT !.value = Insert(@, Unwrap(reg), v.terms),
                                 !.instruction_literal_args = Append(@, None)]
        ELSE IF IsSome(p.assignment_reg[2])
        THEN LET reg == Unwrap(p.assignment_reg[2])
             IN  IF reg = None \/ a.tag # "PolynomialReference" THEN fail
                 ELSE IF a.next \/ a.name \in DOMAIN st.write_regs THEN fail
                 ELSE [st EXCEPT !.write_regs = Insert(@, Unwrap(reg), <<a.name>>),
                                 !.instruction_literal_args = Append(@, None)]
        ELSE IF p.param_type = Some(s_label)
        THEN IF a.tag # "PolynomialReference" THEN fail
             ELSE [st EXCEPT !.instruction_literal_args = Append(@, Some(a.name))]
        ELSE fail

RECURSIVE bind_arguments(_, _, _)
bind_arguments(st, params, args) ==
    IF params = <<>> \/ st.panicked THEN st
    ELSE bind_arguments(bind_argument(st, Head(params), Head(args)),
                        Tail(params), Tail(args))

handle_instruction(c, instr_name, args) ==
    IF instr_name \notin DOMAIN c.instructions THEN Panic(c)
    ELSE LET instr == c.instructions[instr_name]
         IN  IF Len(instr.params) # Len(args) THEN Panic(c)
             ELSE LET st == bind_arguments(LoopState(EmptyMap, <<>>, EmptyMap, FALSE),
                                           instr.params, args)
                  IN  IF st.panicked THEN Panic(c)
                      ELSE [c EXCEPT !.code_lines = Append(@,
                               CodeLine(st.write_regs, st.value, None, Some(instr_name),
                                        st.instruction_literal_args))]

\* a variant of handle_functional_instruction that passes the write register
\* as the first argument
handle_functional_instruction_first(c, write_regs, assign_reg, instr_name, args) ==
    IF Len(write_regs) # 1 \/ assign_reg = None THEN Panic(c)
    ELSE IF instr_name \notin DOMAIN c.instructions THEN Panic(c)
    ELSE LET instr == c.instructions[instr_name]
         IN  IF Len(instr.params) # Len(args) + 1 THEN Panic(c)
             ELSE LET last_param == instr.params[Len(instr.params)]
                  IN  IF \/ IsSome(last_param.param_type)
                         \/ IsSome(last_param.assignment_reg[1])
                         \/ last_param.assignment_reg[2] # Some(assign_reg)
                      THEN Panic(c)
                      ELSE handle_instruction(c, instr_name,
                               <<direct_reference(write_regs[1])>> \o args)

handle_functional_instruction(c, write_regs, assign_reg, instr_name, args) ==
    IF Len(write_regs) # 1 \/ assign_reg = None THEN Panic(c)
    ELSE IF instr_name \notin DOMAIN c.instructions THEN Panic(c)
    ELSE LET instr == c.instructions[instr_name]
         IN  IF Len(instr.params) # Len(args) + 1 THEN Panic(c)
             ELSE LET last_param == instr.params[Len(instr.params)]
                  IN  IF \/ IsSome(last_param.param_type)
                         \/ IsSome(last_param.assignment_reg[1])
                         \/ last_param.assignment_reg[2] # Some(assign_reg)
                      THEN Panic(c)
                      ELSE handle_instruction(c, instr_name,
                               Append(args, direct_reference(write_regs[1])))

(***************************************************************************)
(* The end of convert: read constraints, update identities, the program    *)
(* tables and the plookup.                                                 *)
(***************************************************************************)
create_constraints_for_assignment_reg(c, register) ==
    LET assign_const == register \o s_const
        read_free == register \o s_read_free
        free_value == register \o s_free_value
        regular == regular_registers(c)
        read_coefficient(name) == s_read_ \o register \o s_underscore \o name
        c1 == create_witness_fixed_pairs(c,
                 <<assign_const, read_free>> \o
                 [k \in 1..Len(regular) |-> read_coefficient(regular[k])])
        assign_constraint ==
            ReduceAdd([k \in 1..Len(regular) |->
                          build_mul(direct_reference(read_coefficient(regular[k])),
                                    direct_reference(regular[k]))]
                      \o <<direct_reference(assign_const),
                           build_mul(direct_reference(read_free),
                                     direct_reference(free_value))>>)
    IN  [c1 EXCEPT !.pil = Append(@,
            PolynomialIdentity(build_sub(direct_reference(register), assign_constraint)))]

RECURSIVE create_constraints(_, _)
create_constraints(c, regs) ==
    IF regs = <<>> THEN c
    ELSE create_constraints(create_constraints_for_assignment_reg(c, Head(regs)),
                            Tail(regs))

\* the update identities of convert, in the iteration order of the registers
update_identities(c) ==
    LET names == SelectSeq(Keys(c.registers),
                           LAMBDA n : IsSome(update_expression(c.registers[n])))
    IN  [k \in 1..Len(names) |->
            PolynomialIdentity(build_sub(next_reference(names[k]),
                                         Unwrap(update_expression(c.registers[names[k]]))))]

\* HashMap::from_iter over the labelled lines: a later line overwrites
RECURSIVE label_positions_upto(_, _)
label_positions_upto(code_lines, n) ==
    IF n = 0 THEN EmptyMap
    ELSE LET rest == label_positions_upto(code_lines, n - 1)
             line == code_lines[n]
         IN  IF IsSome(line.label) THEN Insert(rest, Unwrap(line.label), n - 1)
             ELSE rest

\* a variant of compute_label_positions that counts the code lines from 1
compute_label_positions_from_one(c) ==
    LET positions == label_positions_upto(c.code_lines, Len(c.code_lines))
    IN  [l \in DOMAIN positions |-> positions[l] + 1]

compute_label_positions(c) == label_positions_upto(c.code_lines, Len(c.code_lines))

\* what the body of the loop of translate_code_lines does for one line, as
\* the list of its table writes and query appends, in program order
SetCell(name, val) == [op |-> "set", name |-> name, val |-> val]
PushQuery(reg, e) == [op |-> "query", name |-> reg, val |-> e]
Abort == [op |-> "panic", name |-> <<>>, val |-> 0]

write_regs_ops(line) ==
    LET regs == Keys(line.write_regs)
    IN  Concat([k \in 1..Len(regs) |->
            [j \in 1..Len(line.write_regs[regs[k]]) |->
                SetCell(s_p_ \o s_reg_write_ \o regs[k] \o s_underscore
                            \o line.write_regs[regs[k]][j], 1)]])

\* a variant of term_ops that leaves the row out of the query of a free input
term_ops_without_row(assign_reg, term, i) ==
    LET coeff == term[1]
        item == term[2]
    IN  CASE item.tag = "Register" ->
                <<SetCell(s_p_ \o s_read_ \o assign_reg \o s_underscore \o item.name, coeff)>>
          [] item.tag = "Constant" ->
                <<SetCell(s_p_ \o assign_reg \o s_const, coeff)>>
          [] item.tag = "FreeInput" ->
                <<SetCell(s_p_ \o assign_reg \o s_read_free, coeff),
                  PushQuery(assign_reg, item.expr)>>

term_ops(assign_reg, term, i) ==
    LET coeff == term[1]
        item == term[2]
    IN  CASE item.tag = "Register" ->
                <<SetCell(s_p_ \o s_read_ \o assign_reg \o s_underscore \o item.name, coeff)>>
          [] item.tag = "Constant" ->
                <<SetCell(s_p_ \o assign_reg \o s_const, coeff)>>
          [] item.tag = "FreeInput" ->
                <<SetCell(s_p_ \o assign_reg \o s_read_free, coeff),
                  PushQuery(assign_reg, Tuple(<<build_number(i), item.expr>>))>>

value_ops(line, i) ==
    LET regs == Keys(line.value)
    IN  Concat([k \in 1..Len(regs) |->
            Concat([j \in 1..Len(line.value[regs[k]]) |->
                term_ops(regs[k], line.value[regs[k]][j], i)])])

\* a variant of instruction_ops that leaves the read_free tables alone
instruction_ops_without_read_free(c, line, label_positions) ==
    IF line.instruction = None
    THEN IF line.instruction_literal_args = <<>> THEN <<>> ELSE <<Abort>>
    ELSE LET instr == Unwrap(line.instruction)
             params == c.instructions[instr].params
             args == line.instruction_literal_args
             n == IF Len(args) < Len(params) THEN Len(args) ELSE Len(params)
             lits == SelectSeq([k \in 1..n |-> k], LAMBDA k : IsSome(args[k]))
         IN  <<SetCell(s_p_ \o s_instr_ \o instr, 1)>>
             \o [k \in 1..Len(lits) |->
                    IF Unwrap(args[lits[k]]) \in DOMAIN label_positions
                    THEN SetCell(s_p_ \o s_instr_ \o instr \o s_param_
                                     \o params[lits[k]].name,
                                 label_positions[Unwrap(args[lits[k]])])
                    ELSE Abort]

instruction_ops(c, line, label_positions) ==
    IF line.instruction = None
    THEN IF line.instruction_literal_args = <<>> THEN <<>> ELSE <<Abort>>
    ELSE LET instr == Unwrap(line.instruction)
             regs == SelectSeq(Keys(line.write_regs),
                               LAMBDA r : line.write_regs[r] # <<>>)
             params == c.instructions[instr].params
             args == line.instruction_literal_args
             n == IF Len(args) < Len(params) THEN Len(args) ELSE Len(params)
             lits == SelectSeq([k \in 1..n |-> k], LAMBDA k : IsSome(args[k]))
         IN  [k \in 1..Len(regs) |-> SetCell(s_p_ \o regs[k] \o s_read_free, 1)]
             \o <<SetCell(s_p_ \o s_instr_ \o instr, 1)>>
             \o [k \in 1..Len(lits) |->
                    IF Unwrap(args[lits[k]]) \in DOMAIN label_positions
                    THEN SetCell(s_p_ \o s_instr_ \o instr \o s_param_
                                     \o params[lits[k]].name,
                                 label_positions[Unwrap(args[lits[k]])])
                    ELSE Abort]

line_ops(c, line, i, label_positions) ==
    write_regs_ops(line) \o value_ops(line, i) \o instruction_ops(c, line, label_positions)

\* the tables and queries being filled by translate_code_lines
Tables(program_constants, free_value_queries, panicked) ==
    [program_constants |-> program_constants,
     free_value_queries |-> free_value_queries,
     panicked |-> panicked]

\* a variant of apply_op that passes over a write to a table that does not exist
apply_op_lenient(t, o, i) ==
    CASE o.op = "set" ->
            IF o.name \notin DOMAIN t.program_constants THEN t
            ELSE [t EXCEPT !.program_constants[o.name][i + 1] = o.val]
      [] o.op = "query" ->
            IF o.name \notin DOMAIN t.free_value_queries
            THEN [t EXCEPT !.panicked = TRUE]
            ELSE [t EXCEPT !.free_value_queries[o.name] = Append(@, o.val)]
      [] OTHER -> [t EXCEPT !.panicked = TRUE]

apply_op(t, o, i) ==
    CASE o.op = "set" ->
            IF o.name \notin DOMAIN t.program_constants
            THEN [t EXCEPT !.panicked = TRUE]
            ELSE [t EXCEPT !.program_constants[o.name][i + 1] = o.val]
      [] o.op = "query" ->
            IF o.name \notin DOMAIN t.free_value_queries
            THEN [t EXCEPT !.panicked = TRUE]
            ELSE [t EXCEPT !.free_value_queries[o.name] = Append(@, o.val)]
      [] OTHER -> [t EXCEPT !.panicked = TRUE]

RECURSIVE apply_ops(_, _, _)
apply_ops(t, ops, i) ==
    IF ops = <<>> \/ t.panicked THEN t
    ELSE apply_ops(apply_op(t, Head(ops), i), Tail(ops), i)

\* the loop of translate_code_lines over lines i .. len-1 (i counts from 0)
RECURSIVE translate_lines_from(_, _, _, _)
translate_lines_from(c, t, i, label_positions) ==
    IF i >= Len(c.code_lines) \/ t.panicked THEN t
    ELSE translate_lines_from(c,
             apply_ops(t, line_ops(c, c.code_lines[i + 1], i, label_positions), i),
             i + 1, label_positions)

line_column ==
    [kind |-> "PolynomialConstantDefinition", name |-> s_line,
     def |-> [kind |-> "Mapping", params |-> <<s_i>>, body |-> direct_reference(s_i)]]

\* a variant of free_value_column that leaves the register out of the name
free_value_column_unnamed(reg, query) ==
    witness_column(s_free_value,
                   Some([kind |-> "Query", params |-> <<s_i>>, body |-> Tuple(query)]))

free_value_column(reg, query) ==
    witness_column(reg \o s_free_value,
                   Some([kind |-> "Query", params |-> <<s_i>>, body |-> Tuple(query)]))

\* a variant of program_constants_order that keeps the order of registration
program_constants_in_registration_order(c) ==
    LET names == c.program_constant_names
    IN  SelectSeq([k \in 1..Len(names) |->
                      IF names[k] \in Range(SubSeq(names, 1, k - 1)) THEN <<>>
                      ELSE names[k]],
                  LAMBDA n : n # <<>>)

\* the order in which the program-constant arrays are emitted: the iteration
\* order of the BTreeMap program_constants
program_constants_order(c) == SortedSeq(Range(c.program_constant_names))

translate_code_lines(c) ==
    LET c1 == [c EXCEPT !.pil = Append(@, line_column)]
        zeros == [k \in 1..Len(c.code_lines) |-> 0]
        program_constants == [n \in Range(c.program_constant_names) |-> zeros]
        assignment_regs == assignment_registers(c)
    IN  IF assignment_regs # <<>> /\ c.pc_name = None THEN Panic(c1)
        ELSE
        LET free_value_queries ==
                [r \in Range(assignment_regs) |->
                    <<direct_reference(s_i), direct_reference(Unwrap(c.pc_name))>>]
            t == translate_lines_from(c1,
                     Tables(program_constants, free_value_queries, FALSE),
                     0, compute_label_positions(c))
            order == program_constants_order(c)
        IN  IF t.panicked THEN Panic(c1)
            ELSE [c1 EXCEPT !.pil = @
                    \o [k \in 1..Len(assignment_regs) |->
                           free_value_column(assignment_regs[k],
                               t.free_value_queries[assignment_regs[k]])]
                    \o [k \in 1..Len(order) |->
                           ConstantArray(order[k],
                               [j \in 1..Len(zeros) |->
                                   build_number(t.program_constants[order[k]][j])])]]

line_plookup(c) ==
    [kind |-> "PlookupIdentity",
     left |-> SelectedExpressions(None,
                 [k \in 1..Len(c.line_lookup) |-> direct_reference(c.line_lookup[k][1])]),
     right |-> SelectedExpressions(None,
                 [k \in 1..Len(c.line_lookup) |-> direct_reference(c.line_lookup[k][2])])]

\* convert, lines 46-67: the degree and the first two statements
convert_start(c, degree_statement) ==
    LET c1 == set_degree(c, 1024)
        c2 == IF IsSome(degree_statement) THEN set_degree(c1, Unwrap(degree_statement))
              ELSE c1
    IN  IF c2.panicked THEN c2
        ELSE [c2 EXCEPT !.pil = @ \o
                <<[kind |-> "Namespace", name |-> s_Assembly,
                   degree |-> build_number(degree(c2))],
                  ConstantArray(s_first_step, <<build_number(1)>>)>>]

\* a variant of convert_finish that translates the code lines before it emits
\* the update identities
convert_finish_tables_first(c) ==
    LET c1 == create_constraints(c, assignment_registers(c))
        c2 == translate_code_lines(c1)
        c3 == [c2 EXCEPT !.pil = @ \o update_identities(c2)]
    IN  IF c3.panicked THEN c3
        ELSE [c3 EXCEPT !.pil = Append(@, line_plookup(c3))]

\* convert, lines 103-137: what follows the loop over the statements
convert_finish(c) ==
    LET c1 == create_constraints(c, assignment_registers(c))
        c2 == [c1 EXCEPT !.pil = @ \o update_identities(c1)]
        c3 == translate_code_lines(c2)
    IN  IF c3.panicked THEN c3
        ELSE [c3 EXCEPT !.pil = Append(@, line_plookup(c3))]

(***************************************************************************)
(* The assembly sources the model compiles.                                *)
(***************************************************************************)
n_pc == <<"p", "c">>
n_X == <<"X">>
n_A == <<"A">>
n_B == <<"B">>
n_l == <<"l">>
n_a == <<"a">>
n_b == <<"b">>
n_out == <<"o", "u", "t">>
n_jmp == <<"j", "m", "p">>
n_inc == <<"i", "n", "c">>
n_add == <<"a", "d", "d">>
n_dbl == <<"d", "b", "l">>
n_input == <<"i", "n", "p", "u", "t">>

\* a: <=reg=    out: =reg=>    l: label
ReadParam(name, reg) == InstructionParam(name, None, <<Some(Some(reg)), None>>)
WriteParam(name, reg) == InstructionParam(name, None, <<None, Some(Some(reg))>>)
LabelParam(name) == InstructionParam(name, Some(s_label), <<None, None>>)

BodyExpression(e) == [kind |-> "Expression", expr |-> e]
BodyPlookup(left, op, right) ==
    [kind |-> "PlookupIdentity", left |-> left, op |-> op, right |-> right]

\* leading `degree n;` statements (None: the source has none)
DegreeStatements == {None, Some(0), Some(1), Some(3)}

\* reg pc[@pc];  reg X[<=];  reg A;
RegisterDeclarations ==
    {[kind |-> "RegisterDeclaration", name |-> n_pc, flags |-> Some("IsPC")],
     [kind |-> "RegisterDeclaration", name |-> n_X, flags |-> Some("IsAssignment")],
     [kind |-> "RegisterDeclaration", name |-> n_A, flags |-> None]}

InstructionDeclaration(name, params, body) ==
    [kind |-> "InstructionDeclaration", name |-> name, params |-> params, body |-> body]

\* instr jmp l: label { pc' = l }
\* instr inc <=X= a, out =X=> { A' = A + 1 }
\* instr add <=X= a, <=X= b, out =X=> { }
\* instr dbl a =X=>, b =X=> { A = B, { A } in { B } }
InstructionDeclarations ==
    {InstructionDeclaration(n_jmp, <<LabelParam(n_l)>>,
        <<BodyExpression(build_sub(next_reference(n_pc), direct_reference(n_l)))>>),
     InstructionDeclaration(n_inc, <<ReadParam(n_a, n_X), WriteParam(n_out, n_X)>>,
        <<BodyExpression(build_sub(next_reference(n_A),
              build_add(direct_reference(n_A), build_number(1))))>>),
     InstructionDeclaration(n_add,
        <<ReadParam(n_a, n_X), ReadParam(n_b, n_X), WriteParam(n_out, n_X)>>, <<>>),
     InstructionDeclaration(n_dbl, <<WriteParam(n_a, n_X), WriteParam(n_b, n_X)>>,
        <<BodyExpression(build_sub(direct_reference(n_A), direct_reference(n_B))),
          BodyPlookup(SelectedExpressions(None, <<direct_reference(n_A)>>), "In",
                      SelectedExpressions(None, <<direct_reference(n_B)>>))>>)}

\* pil{ pol commit B; B * B = B }
InlinePils ==
    {[kind |-> "InlinePil",
      statements |-> <<witness_column(n_B, None),
                       PolynomialIdentity(build_sub(
                           build_mul(direct_reference(n_B), direct_reference(n_B)),
                           direct_reference(n_B)))>>]}

Assignment(write_regs, assign_reg, value) ==
    [kind |-> "Assignment", write_regs |-> write_regs, assign_reg |-> assign_reg,
     value |-> value]

\* A <=X= 3;   A <=X= ${ ("input", A + 1) };   <=X= A;   A <== 3;
Assignments ==
    {Assignment(<<n_A>>, Some(n_X), build_number(3)),
     Assignment(<<n_A>>, Some(n_X),
        FreeInput(Tuple(<<String(n_input),
                          build_add(direct_reference(n_A), build_number(1))>>))),
     Assignment(<<>>, Some(n_X), direct_reference(n_A)),
     Assignment(<<n_A>>, None, build_number(3))}

FunctionalAssignment(write_regs, assign_reg, function_name, args) ==
    [kind |-> "FunctionalAssignment", write_regs |-> write_regs,
     assign_reg |-> assign_reg, function_name |-> function_name, args |-> args]

\* A <=X= inc(3);   A <=X= add(A, B);   A <=X= jmp();
FunctionalAssignments ==
    {FunctionalAssignment(<<n_A>>, Some(n_X), n_inc, <<build_number(3)>>),
     FunctionalAssignment(<<n_A>>, Some(n_X), n_add,
                          <<direct_reference(n_A), direct_reference(n_B)>>),
     FunctionalAssignment(<<n_A>>, Some(n_X), n_jmp, <<>>)}

Instruction(name, args) == [kind |-> "Instruction", name |-> name, args |-> args]

\* jmp l;   jmp;   inc A, A;   add A, B, A;   dbl B, A;
Instructions ==
    {Instruction(n_jmp, <<direct_reference(n_l)>>),
     Instruction(n_jmp, <<>>),
     Instruction(n_inc, <<direct_reference(n_A), direct_reference(n_A)>>),
     Instruction(n_add, <<direct_reference(n_A), direct_reference(n_B),
                          direct_reference(n_A)>>),
     Instruction(n_dbl, <<direct_reference(n_B), direct_reference(n_A)>>)}

\* l::
Labels == {[kind |-> "Label", name |-> n_l]}

\* degree 2;  (not at the start of the source)
Degrees == {[kind |-> "Degree", degree |-> 2]}

(***************************************************************************)
(* The lookup machines of src/src/commit_evaluator: SortedWitnesses        *)
(* (sorted_witness_machine.rs) and FixedLookup (fixed_lookup_machine.rs).  *)
(*                                                                         *)
(* An AffineExpression is a sum of coefficient * unknown terms plus an     *)
(* offset; the unknowns are cells of the witness.  Numbers are field       *)
(* elements, written as integers; the lookups drawn below stay in a range  *)
(* where no sum wraps around the modulus.  A Result<AffineExpression,      *)
(* EvalError> is a record with the flag ok.  An EvalError is the sequence  *)
(* of the reasons that eval_error::combine has joined.                     *)
(***************************************************************************)
n_C == <<"C">>
n_F == <<"F">>
n_G == <<"G">>

\* the cells of the witness that are not known yet
Unknowns == {"x", "y"}

AffineExpression(coefficients, offset) ==
    [coefficients |-> coefficients, offset |-> offset]

\* From<AbstractNumberType> for AffineExpression
from_value(k) == AffineExpression([u \in Unknowns |-> 0], k)

from_witness_poly_value(x) ==
    AffineExpression([u \in Unknowns |-> IF u = x THEN 1 ELSE 0], 0)

affine_add(a, b) ==
    AffineExpression([u \in Unknowns |-> a.coefficients[u] + b.coefficients[u]],
                     a.offset + b.offset)

affine_sub(a, b) ==
    AffineExpression([u \in Unknowns |-> a.coefficients[u] - b.coefficients[u]],
                     a.offset - b.offset)

nonzero_variables(a) == {u \in Unknowns : a.coefficients[u] # 0}

is_constant(a) == nonzero_variables(a) = {}

constant_value(a) == IF is_constant(a) THEN Some(a.offset) ELSE None

\* a constant that is not zero can never be made zero
is_invalid(a) == is_constant(a) /\ a.offset # 0

\* c * u + offset = 0 for the only unknown u (here c is 1 or -1)
solve(a) ==
    IF Cardinality(nonzero_variables(a)) # 1 THEN None
    ELSE LET u == CHOOSE w \in nonzero_variables(a) : TRUE
         IN  Some(<<u, IF a.coefficients[u] = 1 THEN 0 - a.offset ELSE a.offset>>)

\* Result<AffineExpression, EvalError>
EvalOk(a) == [ok |-> TRUE, value |-> a]
EvalErr == [ok |-> FALSE, value |-> from_value(0)]

\* LookupResult, and what witness_col_values returns; a panic ends the run
Returned(kind, error, assignments, columns) ==
    [kind |-> kind, error |-> error, assignments |-> assignments,
     columns |-> columns]

NothingReturned == Returned("None", <<>>, <<>>, EmptyMap)
NotApplicable == Returned("NotApplicable", <<>>, <<>>, EmptyMap)
ReturnAssignments(assignments) == Returned("Assignments", <<>>, assignments, EmptyMap)
LookupError(reasons) == Returned("Err", reasons, <<>>, EmptyMap)
Panicked == Returned("Panic", <<>>, <<>>, EmptyMap)
Columns(columns) == Returned("Columns", <<>>, <<>>, columns)

\* Vec::resize
resize(seq, n, fill) ==
    [j \in 1..n |-> IF j <= Len(seq) THEN seq[j] ELSE fill]

\* Iterator::position: the lowest index (from 0) whose item is v
position(seq, v) ==
    IF \E j \in 1..Len(seq) : seq[j] = v
    THEN Some((CHOOSE j \in 1..Len(seq) :
                   seq[j] = v /\ \A i \in 1..(j - 1) : seq[i] # v) - 1)
    ELSE None

(***************************************************************************)
(* SortedWitnesses.  data, a BTreeMap, is the sequence of its rows         *)
(* [key, values] in iteration order, which is the order of the keys.       *)
(***************************************************************************)
SortedWitnesses(key, positions, rows) ==
    [key_col |-> key, witness_positions |-> positions, data |-> rows]

DataKeys(rows) == [j \in 1..Len(rows) |-> rows[j].key]

\* BTreeMap::entry(key).or_insert_with(|| fresh)
entry_or_insert(rows, key, fresh) ==
    IF \E j \in 1..Len(rows) : rows[j].key = key THEN rows
    ELSE SelectSeq(rows, LAMBDA row : row.key < key)
             \o <<[key |-> key, values |-> fresh]>>
             \o SelectSeq(rows, LAMBDA row : row.key > key)

\* the row that entry returned
stored_values_of(rows, key) ==
    rows[CHOOSE j \in 1..Len(rows) : rows[j].key = key].values

\* the row of key holds values
with_stored_values(rows, key, values) ==
    [j \in 1..Len(rows) |->
        IF rows[j].key = key THEN [rows[j] EXCEPT !.values = values] ELSE rows[j]]

\* the columns of the machine that the right-hand side names
plookup_rhs(m, right) ==
    [j \in 1..Len(right.expressions) |->
        LET e == right.expressions[j]
        IN  IF /\ e.tag = "PolynomialReference"
               /\ (e.name = m.key_col \/ e.name \in DOMAIN m.witness_positions)
            THEN Some(e.name)
            ELSE None]

\* the state of the loop of process_plookup over the pairs (l, r)
PairsState(values, assignments, ret) ==
    [values |-> values, assignments |-> assignments, returned |-> ret]

\* a variant of process_pair that stores a known left-hand value over the
\* stored one
process_pair_overwriting(m, s, l, r) ==
    IF r \notin DOMAIN m.witness_positions
    THEN [s EXCEPT !.returned = Some(Panicked)]
    ELSE LET at == m.witness_positions[r] + 1
             stored_value == s.values[at]
         IN  IF IsSome(constant_value(l))
             THEN [s EXCEPT !.values[at] = constant_value(l)]
             ELSE IF IsSome(stored_value)
             THEN LET constraint == affine_sub(l, from_value(Unwrap(stored_value)))
                  IN  IF IsSome(solve(constraint))
                      THEN [s EXCEPT !.assignments =
                                         Append(@, Unwrap(solve(constraint)))]
                      ELSE [s EXCEPT !.returned = Some(LookupError(<<"Cannot solve">>))]
             ELSE [s EXCEPT !.returned = Some(LookupError(<<"not known">>))]

\* one iteration of that loop
process_pair(m, s, l, r) ==
    IF r \notin DOMAIN m.witness_positions
    THEN [s EXCEPT !.returned = Some(Panicked)]
    ELSE LET at == m.witness_positions[r] + 1
             stored_value == s.values[at]
         IN  IF IsSome(stored_value)
             THEN LET v == Unwrap(stored_value)
                      constraint == affine_sub(l, from_value(v))
                  IN  IF is_invalid(constraint)
                      THEN [s EXCEPT !.returned = Some(LookupError(<<"Lookup mismatch">>))]
                      ELSE IF constant_value(constraint) = Some(0)
                      THEN s
                      ELSE IF IsSome(solve(constraint))
                      THEN [s EXCEPT !.assignments =
                                         Append(@, Unwrap(solve(constraint)))]
                      ELSE [s EXCEPT !.returned = Some(LookupError(<<"Cannot solve">>))]
             ELSE IF IsSome(constant_value(l))
                  THEN [s EXCEPT !.values[at] = constant_value(l)]
                  ELSE [s EXCEPT !.returned = Some(LookupError(<<"not known">>))]

\* the loop over left.iter().zip(rhs.iter()).skip(1), from pair j on
RECURSIVE process_pairs(_, _, _, _, _)
process_pairs(m, s, left, rhs, j) ==
    IF j > Len(left) \/ j > Len(rhs) \/ IsSome(s.returned) THEN s
    ELSE process_pairs(m, process_pair(m, s, left[j].value, rhs[j]), left, rhs, j + 1)

\* process_plookup: the machine it leaves and what it returns
sorted_process_plookup(m, kind, left, right) ==
    LET rhs == plookup_rhs(m, right)
        names == [j \in 1..Len(rhs) |-> Unwrap(rhs[j])]
        errors == SelectSeq(left, LAMBDA l : ~l.ok)
        key_index == position(names, m.key_col)
        leaves(mach, ret) == [machine |-> mach, returned |-> ret]
    IN  IF kind # "Plookup" \/ IsSome(right.selector)
        THEN leaves(m, NotApplicable)
        ELSE IF \E j \in 1..Len(right.expressions) :
                    /\ right.expressions[j].tag = "PolynomialReference"
                    /\ right.expressions[j].next
        THEN leaves(m, Panicked)
        ELSE IF \E j \in 1..Len(rhs) : rhs[j] = None
        THEN leaves(m, NotApplicable)
        ELSE IF errors # <<>>
        THEN leaves(m, LookupError([j \in 1..Len(errors) |-> "LHS"]))
        ELSE IF key_index = None \/ Unwrap(key_index) + 1 > Len(left)
        THEN leaves(m, Panicked)
        ELSE LET key_value == constant_value(left[Unwrap(key_index) + 1].value)
             IN  IF key_value = None
                 THEN leaves(m, LookupError(<<"Value of unique key must be known">>))
                 ELSE LET key == Unwrap(key_value)
                          rows == entry_or_insert(m.data, key,
                                      [j \in 1..Cardinality(DOMAIN m.witness_positions)
                                          |-> None])
                          s == process_pairs(m,
                                   PairsState(stored_values_of(rows, key), <<>>, None),
                                   left, names, 2)
                      IN  leaves([m EXCEPT !.data =
                                      with_stored_values(rows, key, s.values)],
                                 IF IsSome(s.returned) THEN Unwrap(s.returned)
                                 ELSE ReturnAssignments(s.assignments))

\* witness_col_values: the machine it leaves and the columns it returns
sorted_witness_col_values(m, rows_wanted) ==
    LET keys == DataKeys(m.data)
        last_key == IF keys = <<>> THEN 0 ELSE keys[Len(keys)]
        padded == keys \o [j \in 1..(rows_wanted - Len(keys)) |-> last_key + j]
        col_values(i) ==
            resize([j \in 1..Len(m.data) |->
                       IF IsSome(m.data[j].values[i + 1])
                       THEN Unwrap(m.data[j].values[i + 1]) ELSE 0],
                   rows_wanted, 0)
    IN  [machine |-> [m EXCEPT !.data = <<>>],
         returned |->
             Columns([name \in DOMAIN m.witness_positions \cup {m.key_col} |->
                         IF name \in DOMAIN m.witness_positions
                         THEN col_values(m.witness_positions[name])
                         ELSE padded])]

(***************************************************************************)
(* FixedLookup.                                                            *)
(***************************************************************************)
\* util::contains_witness_ref, for the expressions drawn here
contains_witness_ref(e, fixed_data) ==
    e.tag = "PolynomialReference" /\ e.name \in fixed_data.witness_cols

\* EvaluateFixedOnRow::value
fixed_value_on_row(fixed_data, row, name, next) ==
    LET values == fixed_data.fixed_cols[name]
        length == Len(values)
        at == IF next THEN (row + 1) % length ELSE row
    IN  values[at + 1]

\* ExpressionEvaluator::evaluate over EvaluateFixedOnRow
evaluate_fixed_on_row(fixed_data, row, e) ==
    IF e.tag = "Number" THEN from_value(e.value)
    ELSE from_value(fixed_value_on_row(fixed_data, row, e.name, e.next))

\* equate_to_constant_rhs: the assignments, or the reason of the error
equate_to_constant_rhs(l, r, fixed_data, rhs_row) ==
    LET value == Unwrap(constant_value(evaluate_fixed_on_row(fixed_data, rhs_row, r)))
        evaluated == affine_sub(l, from_value(value))
    IN  IF IsSome(solve(evaluated))
        THEN [ok |-> TRUE, assignments |-> <<Unwrap(solve(evaluated))>>, reason |-> ""]
        ELSE [ok |-> FALSE, assignments |-> <<>>,
              reason |-> IF is_invalid(evaluated) THEN "Constraint is invalid"
                         ELSE "Could not solve expression"]

\* a variant of rhs_row_of that takes the last match
rhs_row_of_last_match(fixed_data, right_key, left_key) ==
    IF right_key.name \in DOMAIN fixed_data.fixed_cols
    THEN LET values == fixed_data.fixed_cols[right_key.name]
         IN  IF \E j \in 1..Len(values) : values[j] = left_key
             THEN Some((CHOOSE j \in 1..Len(values) :
                            /\ values[j] = left_key
                            /\ \A i \in (j + 1)..Len(values) : values[i] # left_key) - 1)
             ELSE None
    ELSE None

\* the row of the first match of left_key in the column that right_key names
rhs_row_of(fixed_data, right_key, left_key) ==
    IF right_key.name \in DOMAIN fixed_data.fixed_cols
    THEN position(fixed_data.fixed_cols[right_key.name], left_key)
    ELSE None

\* the loop of process_plookup over the pairs (l, r), from pair j on
RECURSIVE equate_pairs(_, _, _, _, _)
equate_pairs(left, expressions, fixed_data, rhs_row, j) ==
    IF j > Len(left) \/ j > Len(expressions) THEN [result |-> <<>>, reasons |-> <<>>]
    ELSE LET rest == equate_pairs(left, expressions, fixed_data, rhs_row, j + 1)
             eq == equate_to_constant_rhs(left[j].value, expressions[j],
                                          fixed_data, rhs_row)
         IN  IF ~left[j].ok
             THEN [rest EXCEPT !.reasons = <<"Value of LHS component too complex">> \o @]
             ELSE IF eq.ok
             THEN [rest EXCEPT !.result = eq.assignments \o @]
             ELSE [rest EXCEPT !.reasons = <<eq.reason>> \o @]

fixed_process_plookup(fixed_data, kind, left, right) ==
    IF \/ kind # "Plookup"
       \/ IsSome(right.selector)
       \/ \E j \in 1..Len(right.expressions) :
              contains_witness_ref(right.expressions[j], fixed_data)
    THEN NotApplicable
    ELSE IF \A j \in 1..Len(left) : left[j].ok /\ is_constant(left[j].value)
    THEN ReturnAssignments(<<>>)
    ELSE IF ~left[1].ok
    THEN LookupError(<<"First expression on the LHS is unknown">>)
    ELSE IF constant_value(left[1].value) = None
    THEN LookupError(<<"First expression needs to be constant but is not">>)
    ELSE IF right.expressions[1].tag # "PolynomialReference"
    THEN LookupError(<<"First item on the RHS must be a polynomial reference">>)
    ELSE LET left_key == Unwrap(constant_value(left[1].value))
             rhs_row == rhs_row_of(fixed_data, right.expressions[1], left_key)
         IN  IF rhs_row = None
             THEN LookupError(<<"Unable to find matching row on the RHS">>)
             ELSE LET done == equate_pairs(left, right.expressions, fixed_data,
                                           Unwrap(rhs_row), 2)
                  IN  IF done.result # <<>> THEN ReturnAssignments(done.result)
                      ELSE IF done.reasons = <<>> THEN Panicked
                      ELSE LookupError(done.reasons)

(***************************************************************************)
(* The state machine: one compilation.                                     *)
(***************************************************************************)
VARIABLES
    degree_exponent, pil, pc_name, registers, instructions, code_lines,
    line_lookup, program_constant_names,   \* the fields of ASMPILConverter
    phase,        \* "new", "statements", "done" or "panic"
    statement,    \* the statement of the source last taken (the loop variable)
    consumed,     \* how many statements of the source the loop has taken
    output,       \* the PILFile that convert returned
    source,       \* the source being compiled, where a compilation is repeated
    earlier,      \* how an earlier compilation of the same source ended
    key_col, witness_positions, data,      \* the fields of SortedWitnesses
    lookup,       \* the arguments of the last call on a machine
    returned      \* what the last call on a machine returned

compiler == <<degree_exponent, pil, pc_name, registers, instructions, code_lines,
              line_lookup, program_constant_names, phase, statement, consumed,
              output, source, earlier>>

machines == <<key_col, witness_positions, data, lookup, returned>>

vars == <<compiler, machines>>

\* no machine has been built
NoMachine ==
    /\ key_col = <<>>
    /\ witness_positions = EmptyMap
    /\ data = <<>>
    /\ lookup = None
    /\ returned = NothingReturned

\* the converter, as the operations take it
Conv ==
    [degree_exponent |-> degree_exponent, pil |-> pil, pc_name |-> pc_name,
     registers |-> registers, instructions |-> instructions,
     code_lines |-> code_lines, line_lookup |-> line_lookup,
     program_constant_names |-> program_constant_names, panicked |-> FALSE]

\* the converter becomes c
Becomes(c) ==
    /\ degree_exponent' = c.degree_exponent
    /\ pil' = c.pil
    /\ pc_name' = c.pc_name
    /\ registers' = c.registers
    /\ instructions' = c.instructions
    /\ code_lines' = c.code_lines
    /\ line_lookup' = c.line_lookup
    /\ program_constant_names' = c.program_constant_names

\* the converter as ASMPILConverter::new leaves it, before convert is called
Constructed ==
    /\ degree_exponent = new.degree_exponent
    /\ pil = new.pil
    /\ pc_name = new.pc_name
    /\ registers = new.registers
    /\ instructions = new.instructions
    /\ code_lines = new.code_lines
    /\ line_lookup = new.line_lookup
    /\ program_constant_names = new.program_constant_names
    /\ phase = "new"
    /\ statement = None
    /\ consumed = 0
    /\ output = None
    /\ source = <<>>
    /\ earlier = None

Init == Constructed /\ NoMachine

\* the leading statement `degree n;` as the iterator yields it
LeadingDegree(d) ==
    IF d = None THEN None ELSE Some([kind |-> "Degree", degree |-> Unwrap(d)])

\* convert up to its loop, for a source with the leading degree statement d:
\* the degree, the namespace and first_step
StartWith(d) ==
    /\ phase = "new"
    /\ LET c == convert_start(Conv, d)
       IN  /\ Becomes(c)
           /\ phase' = IF c.panicked THEN "panic" ELSE "statements"
    /\ statement' = LeadingDegree(d)
    /\ UNCHANGED <<consumed, output>>
    /\ UNCHANGED machines

Start ==
    /\ \E d \in DegreeStatements : StartWith(d)
    /\ UNCHANGED <<source, earlier>>

\* one iteration of the loop of convert: statement st leaves the converter c
Taken(st, c) ==
    /\ Becomes(c)
    /\ phase' = IF c.panicked THEN "panic" ELSE "statements"
    /\ statement' = Some(st)
    /\ consumed' = consumed + 1
    /\ UNCHANGED output
    /\ UNCHANGED machines

Take(st, c) == Taken(st, c) /\ UNCHANGED <<source, earlier>>

CanTake == phase = "statements" /\ consumed < MaxStmts

\* a degree statement reaches the loop only if it is not the first statement
\* of the source (the first one is taken before the loop)
DegreeStatement ==
    /\ CanTake
    /\ consumed > 0 \/ IsSome(statement)
    /\ \E st \in Degrees : Take(st, Panic(Conv))

RegisterDeclaration ==
    /\ CanTake
    /\ \E st \in RegisterDeclarations :
          Take(st, handle_register_declaration(Conv, st.flags, st.name))

InstructionDeclarationStatement ==
    /\ CanTake
    /\ \E st \in InstructionDeclarations :
          Take(st, handle_instruction_def(Conv, st.body, st.name, st.params))

InlinePil ==
    /\ CanTake
    /\ \E st \in InlinePils : Take(st, [Conv EXCEPT !.pil = @ \o st.statements])

AssignmentStatement ==
    /\ CanTake
    /\ \E st \in Assignments :
          Take(st, handle_assignment(Conv, st.write_regs, st.assign_reg, st.value))

FunctionalAssignmentStatement ==
    /\ CanTake
    /\ \E st \in FunctionalAssignments :
          Take(st, handle_functional_instruction(Conv, st.write_regs, st.assign_reg,
                                                 st.function_name, st.args))

InstructionStatement ==
    /\ CanTake
    /\ \E st \in Instructions : Take(st, handle_instruction(Conv, st.name, st.args))

Label ==
    /\ CanTake
    /\ \E st \in Labels : Take(st, handle_label(Conv, st.name))

\* the source is consumed: the rest of convert, which returns the PIL
Finished ==
    /\ phase = "statements"
    /\ LET c == convert_finish(Conv)
       IN  IF c.panicked
           THEN Becomes(c) /\ phase' = "panic" /\ output' = None
           ELSE Becomes([c EXCEPT !.pil = <<>>]) /\ phase' = "done"
                /\ output' = Some(c.pil)
    /\ statement' = None
    /\ UNCHANGED consumed
    /\ UNCHANGED machines

Finish == Finished /\ UNCHANGED <<source, earlier>>

Next ==
    \/ Start
    \/ DegreeStatement
    \/ RegisterDeclaration
    \/ InstructionDeclarationStatement
    \/ InlinePil
    \/ AssignmentStatement
    \/ FunctionalAssignmentStatement
    \/ InstructionStatement
    \/ Label
    \/ Finish

Spec == Init /\ [][Next]_vars

(***************************************************************************)
(* Two compilations of one source, one after the other.  The first one     *)
(* records the source it is given, the second one is given the same        *)
(* source; `earlier` keeps how the first one ended.                        *)
(***************************************************************************)
\* the match of the loop of convert
handle_statement(c, st) ==
    CASE st.kind = "Degree" -> Panic(c)
      [] st.kind = "RegisterDeclaration" ->
            handle_register_declaration(c, st.flags, st.name)
      [] st.kind = "InstructionDeclaration" ->
            handle_instruction_def(c, st.body, st.name, st.params)
      [] st.kind = "InlinePil" -> [c EXCEPT !.pil = @ \o st.statements]
      [] st.kind = "Assignment" ->
            handle_assignment(c, st.write_regs, st.assign_reg, st.value)
      [] st.kind = "FunctionalAssignment" ->
            handle_functional_instruction(c, st.write_regs, st.assign_reg,
                                          st.function_name, st.args)
      [] st.kind = "Instruction" -> handle_instruction(c, st.name, st.args)
      [] st.kind = "Label" -> handle_label(c, st.name)

\* the statements of the sources
Statements ==
    RegisterDeclarations \cup InstructionDeclarations \cup InlinePils
        \cup Assignments \cup FunctionalAssignments \cup Instructions \cup Labels
        \cup Degrees

\* a variant of compile_converter that goes on with the converter of the
\* compilation before
compile_converter_reused(previous) == previous

\* compile: every call converts with a converter of its own, whatever a
\* converter before it was left as
compile_converter(previous) == new

\* how a compilation ended: with a panic, or with the PIL it returned
Outcome == [phase |-> phase, output |-> output]

\* the leading degree statement of the recorded source, and what follows it
SourceDegree ==
    IF source # <<>> /\ source[1].kind = "Degree" THEN Some(source[1].degree)
    ELSE None

SourceStatements == IF SourceDegree = None THEN source ELSE Tail(source)

FirstStart ==
    /\ earlier = None
    /\ \E d \in DegreeStatements : StartWith(d) /\ source' = LeadingDegree(d)
    /\ UNCHANGED earlier

FirstStatement ==
    /\ earlier = None
    /\ phase = "statements" /\ consumed < MaxSource
    /\ \E st \in Statements :
          /\ st.kind = "Degree" => source # <<>>
          /\ Taken(st, handle_statement(Conv, st))
          /\ source' = Append(source, st)
    /\ UNCHANGED earlier

FirstFinish ==
    /\ earlier = None
    /\ Finished
    /\ UNCHANGED <<source, earlier>>

\* the first compilation has ended; compile is called with the same source
CompileAgain ==
    /\ earlier = None
    /\ phase \in {"done", "panic"}
    /\ earlier' = Some(Outcome)
    /\ Becomes(compile_converter(Conv))
    /\ phase' = "new"
    /\ statement' = None
    /\ consumed' = 0
    /\ output' = None
    /\ UNCHANGED source
    /\ UNCHANGED machines

SecondStart ==
    /\ IsSome(earlier)
    /\ StartWith(SourceDegree)
    /\ UNCHANGED <<source, earlier>>

SecondStatement ==
    /\ IsSome(earlier)
    /\ phase = "statements" /\ consumed < Len(SourceStatements)
    /\ LET st == SourceStatements[consumed + 1]
       IN  Taken(st, handle_statement(Conv, st))
    /\ UNCHANGED <<source, earlier>>

SecondFinish ==
    /\ IsSome(earlier)
    /\ consumed = Len(SourceStatements)
    /\ Finished
    /\ UNCHANGED <<source, earlier>>

NextTwice ==
    \/ FirstStart
    \/ FirstStatement
    \/ FirstFinish
    \/ CompileAgain
    \/ SecondStart
    \/ SecondStatement
    \/ SecondFinish

SpecTwice == Init /\ [][NextTwice]_vars

(***************************************************************************)
(* Sources whose assignments are products with a constant factor:          *)
(*   reg pc[@pc]; reg X[<=]; reg A;  A <=X= l * r;  ...                    *)
(***************************************************************************)
\* the constant factors
Factors == {build_number(2), build_number(0), build_number(0 - 1)}

\* the other operands:  A,  3,  A + 3,  A - 3,  -A,  ${ ("input", A + 1) },
\* 2 * A,  A * A,  A',  (1 + 2) * A
Operands ==
    {direct_reference(n_A),
     build_number(3),
     build_add(direct_reference(n_A), build_number(3)),
     build_sub(direct_reference(n_A), build_number(3)),
     build_unary_expr("Minus", direct_reference(n_A)),
     FreeInput(Tuple(<<String(n_input),
                       build_add(direct_reference(n_A), build_number(1))>>)),
     build_mul(build_number(2), direct_reference(n_A)),
     build_mul(direct_reference(n_A), direct_reference(n_A)),
     next_reference(n_A),
     build_mul(build_add(build_number(1), build_number(2)), direct_reference(n_A))}

\* A <=X= c * e;   A <=X= e * c;
ProductAssignments ==
    {Assignment(<<n_A>>, Some(n_X), build_mul(c, e)) : c \in Factors, e \in Operands}
        \cup
    {Assignment(<<n_A>>, Some(n_X), build_mul(e, c)) : c \in Factors, e \in Operands}

\* A <=X= e;
OperandAssignments == {Assignment(<<n_A>>, Some(n_X), e) : e \in Operands}

\* reg pc[@pc];  reg X[<=];  reg A;
Preamble ==
    <<[kind |-> "RegisterDeclaration", name |-> n_pc, flags |-> Some("IsPC")],
      [kind |-> "RegisterDeclaration", name |-> n_X, flags |-> Some("IsAssignment")],
      [kind |-> "RegisterDeclaration", name |-> n_A, flags |-> None]>>

\* the loop of convert over the statements sts
RECURSIVE handle_statements(_, _)
handle_statements(c, sts) ==
    IF sts = <<>> \/ c.panicked THEN c
    ELSE handle_statements(handle_statement(c, Head(sts)), Tail(sts))

\* the converter when the loop has taken the declarations
AfterPreamble == handle_statements(convert_start(new, None), Preamble)

InitProducts ==
    /\ degree_exponent = AfterPreamble.degree_exponent
    /\ pil = AfterPreamble.pil
    /\ pc_name = AfterPreamble.pc_name
    /\ registers = AfterPreamble.registers
    /\ instructions = AfterPreamble.instructions
    /\ code_lines = AfterPreamble.code_lines
    /\ line_lookup = AfterPreamble.line_lookup
    /\ program_constant_names = AfterPreamble.program_constant_names
    /\ phase = "statements"
    /\ statement = Some(Preamble[Len(Preamble)])
    /\ consumed = Len(Preamble)
    /\ output = None
    /\ source = <<>>
    /\ earlier = None
    /\ NoMachine

ProductAssignment ==
    /\ CanTake
    /\ \E st \in ProductAssignments \cup OperandAssignments :
          Take(st, handle_statement(Conv, st))

NextProducts ==
    \/ ProductAssignment
    \/ Finish

SpecProducts == InitProducts /\ [][NextProducts]_vars

(***************************************************************************)
(* Register::update_expression on its own: register A with conditioned     *)
(* updates and a default drawn from the conditions and values that the     *)
(* declarations and the instruction bodies of the sources append.          *)
(***************************************************************************)
\* longest list of conditioned updates drawn
MaxUpdates == 2

\* first_step',  reg_write_X_A,  instr_inc
UpdateConditions ==
    {next_reference(s_first_step),
     direct_reference(s_reg_write_ \o n_X \o s_underscore \o n_A),
     direct_reference(s_instr_ \o n_inc)}

\* 0,  X,  A + 1
UpdateValues ==
    {build_number(0), direct_reference(n_X),
     build_add(direct_reference(n_A), build_number(1))}

\* the lists of at most n conditioned updates
RECURSIVE ConditionedUpdates(_)
ConditionedUpdates(n) ==
    IF n = 0 THEN {<<>>}
    ELSE ConditionedUpdates(n - 1) \cup
         {Append(cu, <<cond, val>>) :
             cu \in {l \in ConditionedUpdates(n - 1) : Len(l) = n - 1},
             cond \in UpdateConditions, val \in UpdateValues}

\* no default,  A,  A + 1
DefaultUpdates ==
    {None, Some(direct_reference(n_A)),
     Some(build_add(direct_reference(n_A), build_number(1)))}

InitUpdates ==
    /\ degree_exponent = 10
    /\ pil = <<>>
    /\ pc_name = None
    /\ \E cu \in ConditionedUpdates(MaxUpdates) : \E def \in DefaultUpdates :
          registers = Insert(EmptyMap, n_A, Register(cu, def, FALSE))
    /\ instructions = EmptyMap
    /\ code_lines = <<>>
    /\ line_lookup = <<>>
    /\ program_constant_names = <<>>
    /\ phase = "statements"
    /\ statement = None
    /\ consumed = 0
    /\ output = None
    /\ source = <<>>
    /\ earlier = None
    /\ NoMachine

\* the loop of convert over the registers that emits the update identities
EmitUpdateIdentities ==
    /\ phase = "statements"
    /\ Becomes([Conv EXCEPT !.pil = @ \o update_identities(Conv)])
    /\ phase' = "done"
    /\ UNCHANGED <<statement, consumed, output, source, earlier>>
    /\ UNCHANGED machines

NextUpdates == EmitUpdateIdentities

SpecUpdates == InitUpdates /\ [][NextUpdates]_vars

(***************************************************************************)
(* Sources whose code lines read sums, products and free inputs:           *)
(*   reg pc[@pc]; reg X[<=]; reg A; instr inc <=X= a, out =X=> {..};       *)
(*   A <=X= v;  inc v, A;  ...                                             *)
(***************************************************************************)
\* ${ ("input", A + 1) }
InputQuery ==
    FreeInput(Tuple(<<String(n_input),
                      build_add(direct_reference(n_A), build_number(1))>>))

\* A + A,  1 + 2,  2 * ${..},  ${..} + 3,  pc - A,  ${..} + ${..}
TableValues ==
    {build_add(direct_reference(n_A), direct_reference(n_A)),
     build_add(build_number(1), build_number(2)),
     build_mul(build_number(2), InputQuery),
     build_add(InputQuery, build_number(3)),
     build_sub(direct_reference(n_pc), direct_reference(n_A)),
     build_add(InputQuery, InputQuery)}

\* A <=X= v;   inc v, A;   l::
TableStatements ==
    {Assignment(<<n_A>>, Some(n_X), v) : v \in TableValues}
        \cup {Instruction(n_inc, <<v, direct_reference(n_A)>>) : v \in TableValues}
        \cup Labels

\* reg pc[@pc];  reg X[<=];  reg A;  instr inc <=X= a, out =X=> { A' = A + 1 }
TablePreamble ==
    Preamble \o
    <<InstructionDeclaration(n_inc, <<ReadParam(n_a, n_X), WriteParam(n_out, n_X)>>,
        <<BodyExpression(build_sub(next_reference(n_A),
              build_add(direct_reference(n_A), build_number(1))))>>)>>

AfterTablePreamble == handle_statements(convert_start(new, None), TablePreamble)

InitTables ==
    /\ degree_exponent = AfterTablePreamble.degree_exponent
    /\ pil = AfterTablePreamble.pil
    /\ pc_name = AfterTablePreamble.pc_name
    /\ registers = AfterTablePreamble.registers
    /\ instructions = AfterTablePreamble.instructions
    /\ code_lines = AfterTablePreamble.code_lines
    /\ line_lookup = AfterTablePreamble.line_lookup
    /\ program_constant_names = AfterTablePreamble.program_constant_names
    /\ phase = "statements"
    /\ statement = Some(TablePreamble[Len(TablePreamble)])
    /\ consumed = Len(TablePreamble)
    /\ output = None
    /\ source = <<>>
    /\ earlier = None
    /\ NoMachine

TableStatement ==
    /\ phase = "statements" /\ Len(code_lines) < MaxLines
    /\ \E st \in TableStatements : Take(st, handle_statement(Conv, st))

NextTables ==
    \/ TableStatement
    \/ Finish

SpecTables == InitTables /\ [][NextTables]_vars

(***************************************************************************)
(* A SortedWitnesses machine with the key column A and the witness columns *)
(* B and C, that is asked lookups and at last its columns.                 *)
(***************************************************************************)
\* the degrees of the traces that the columns are asked for
SortedDegrees == {1, 2, 4}

\* try_new: the positions follow the iteration order of a HashSet
try_new(witness_names, key) ==
    LET others == witness_names \ {key}
    IN  {SortedWitnesses(key, positions, <<>>) :
            positions \in {f \in [others -> 0..(Cardinality(others) - 1)] :
                              \A v, w \in others : (v # w) => f[v] # f[w]}}

InitSorted ==
    /\ Constructed
    /\ \E m \in try_new({n_A, n_B, n_C}, n_A) :
          /\ key_col = m.key_col
          /\ witness_positions = m.witness_positions
          /\ data = m.data
    /\ lookup = None
    /\ returned = NothingReturned

\* left-hand values of the key column and of the other columns
KeyValues ==
    {EvalOk(from_value(k)) : k \in 1..2}
        \cup {EvalOk(from_witness_poly_value("x")), EvalErr}

DataValues ==
    {EvalOk(from_value(v)) : v \in 1..2}
        \cup {EvalOk(from_witness_poly_value("x")),
              EvalOk(affine_add(from_witness_poly_value("x"),
                                from_witness_poly_value("y"))),
              EvalErr}

\* right-hand sides: { A }, { B }, { A, B }, { B, A }, { A, B, C }
RightSides ==
    {<<direct_reference(n_A)>>,
     <<direct_reference(n_B)>>,
     <<direct_reference(n_A), direct_reference(n_B)>>,
     <<direct_reference(n_B), direct_reference(n_A)>>,
     <<direct_reference(n_A), direct_reference(n_B), direct_reference(n_C)>>}

LeftSides(expressions) ==
    {left \in [1..Len(expressions) -> KeyValues \cup DataValues] :
        \A j \in 1..Len(expressions) :
            left[j] \in (IF expressions[j].name = n_A THEN KeyValues ELSE DataValues)}

Lookup(kind, left, right) == [kind |-> kind, left |-> left, right |-> right]

\* the argument of witness_col_values that matters: fixed_data.degree
ColumnsAsked(degree_asked) == [kind |-> "witness_col_values", degree |-> degree_asked]

\* the plookups into the machine; a permutation, and plookups with a selector
\* on the right, into another column F, and into the next row
SortedLookups ==
    UNION {{Lookup("Plookup", left, SelectedExpressions(None, expressions)) :
               left \in LeftSides(expressions)} : expressions \in RightSides}

OtherLookups ==
    {Lookup("Permutation", <<EvalOk(from_value(1)), EvalOk(from_value(1))>>,
            SelectedExpressions(None,
                <<direct_reference(n_A), direct_reference(n_B)>>)),
     Lookup("Plookup", <<EvalOk(from_value(1)), EvalOk(from_value(1))>>,
            SelectedExpressions(Some(direct_reference(n_F)),
                <<direct_reference(n_A), direct_reference(n_B)>>)),
     Lookup("Plookup", <<EvalOk(from_value(1)), EvalOk(from_value(1))>>,
            SelectedExpressions(None,
                <<direct_reference(n_A), direct_reference(n_F)>>)),
     Lookup("Plookup", <<EvalOk(from_value(1)), EvalOk(from_value(1))>>,
            SelectedExpressions(None,
                <<next_reference(n_A), direct_reference(n_B)>>))}

Machine == SortedWitnesses(key_col, witness_positions, data)

\* the process runs, and the columns have not been taken yet
Running == returned.kind \notin {"Panic", "Columns"}

ProcessPlookup ==
    /\ Running
    /\ \E call \in SortedLookups \cup OtherLookups :
          LET done == sorted_process_plookup(Machine, call.kind, call.left, call.right)
          IN  /\ data' = done.machine.data
              /\ lookup' = Some(call)
              /\ returned' = done.returned
    /\ UNCHANGED <<key_col, witness_positions>>
    /\ UNCHANGED compiler

WitnessColValues ==
    /\ Running
    /\ \E degree_asked \in SortedDegrees :
          LET done == sorted_witness_col_values(Machine, degree_asked)
          IN  /\ data' = done.machine.data
              /\ lookup' = Some(ColumnsAsked(degree_asked))
              /\ returned' = done.returned
    /\ UNCHANGED <<key_col, witness_positions>>
    /\ UNCHANGED compiler

NextSorted ==
    \/ ProcessPlookup
    \/ WitnessColValues

SpecSorted == InitSorted /\ [][NextSorted]_vars

(***************************************************************************)
(* A FixedLookup machine that is asked lookups into the fixed columns      *)
(* F = [1, 2, 1, 3] and G = [5, 6, 7, 8]; A is a witness column.           *)
(***************************************************************************)
LookupFixedData ==
    [degree |-> 4,
     fixed_cols |-> (n_F :> <<1, 2, 1, 3>>) @@ (n_G :> <<5, 6, 7, 8>>),
     witness_cols |-> {n_A}]

InitFixed ==
    /\ Constructed
    /\ NoMachine

FirstValues ==
    {EvalOk(from_value(k)) : k \in {1, 2, 4}}
        \cup {EvalOk(from_witness_poly_value("x")), EvalErr}

OtherValues ==
    {EvalOk(from_value(v)) : v \in {5, 7}}
        \cup {EvalOk(from_witness_poly_value("x")),
              EvalOk(from_witness_poly_value("y")),
              EvalOk(affine_add(from_witness_poly_value("x"),
                                from_witness_poly_value("y"))),
              EvalErr}

FirstExpressions ==
    {direct_reference(n_F), next_reference(n_F), direct_reference(n_G),
     build_number(1), direct_reference(n_A)}

OtherExpressions ==
    {direct_reference(n_G), next_reference(n_G), direct_reference(n_F),
     build_number(5)}

FixedLookups ==
    {Lookup("Plookup", <<l1, l2>>, SelectedExpressions(None, <<r1, r2>>)) :
        l1 \in FirstValues, l2 \in OtherValues,
        r1 \in FirstExpressions, r2 \in OtherExpressions}
    \cup
    {Lookup("Plookup", <<l1, l2, l3>>,
            SelectedExpressions(None,
                <<direct_reference(n_F), direct_reference(n_G), r3>>)) :
        l1 \in FirstValues, l2 \in OtherValues, l3 \in OtherValues,
        r3 \in {next_reference(n_G), direct_reference(n_F)}}
    \cup OtherLookups

FixedProcessPlookup ==
    /\ returned.kind # "Panic"
    /\ \E call \in FixedLookups :
          /\ lookup' = Some(call)
          /\ returned' = fixed_process_plookup(LookupFixedData, call.kind,
                                               call.left, call.right)
    /\ UNCHANGED <<key_col, witness_positions, data>>
    /\ UNCHANGED compiler

NextFixed == FixedProcessPlookup

SpecFixed == InitFixed /\ [][NextFixed]_vars

(***************************************************************************)
(* Reading the PIL that convert returned.                                  *)
(***************************************************************************)
Done == phase = "done"

Out == Unwrap(output)

IsCommit(s) == s.kind = "PolynomialCommitDeclaration"

IsArray(s) == s.kind = "PolynomialConstantDefinition" /\ s.def.kind = "Array"

IsIdentityOn(s, next) ==
    /\ s.kind = "PolynomialIdentity"
    /\ s.expr.tag = "BinaryOperation" /\ s.expr.op = "Sub"
    /\ s.expr.left.tag = "PolynomialReference" /\ s.expr.left.next = next

IsPrefix(s, t) == Len(s) <= Len(t) /\ SubSeq(t, 1, Len(s)) = s

Count(seq, P(_)) == Len(SelectSeq(seq, P))

NamesOf(seq) == [k \in 1..Len(seq) |-> seq[k].name]

RegularRegisters == {r \in DOMAIN registers : ~registers[r].is_assignment}

AssignmentRegisters == {r \in DOMAIN registers : registers[r].is_assignment}

\* the program-constant arrays of the returned PIL (first_step is statement 2)
ProgramConstantArrays == SelectSeq(SubSeq(Out, 3, Len(Out)), IsArray)

RECURSIVE Sum(_)
Sum(seq) == IF seq = <<>> THEN 0 ELSE Head(seq) + Sum(Tail(seq))

\* the value of fixed column `name` on row i (rows count from 0): the array of
\* the returned PIL, zero beyond its end
FixedValue(name, i) ==
    LET arrays == SelectSeq(Out, LAMBDA s : IsArray(s) /\ s.name = name)
    IN  IF arrays = <<>> \/ i >= Len(arrays[1].def.values) THEN 0
        ELSE arrays[1].def.values[i + 1].value

\* the value on row i of an update condition, a column reference: the program
\* table of a flag, or first_step on the next row
ConditionValue(cond, i) ==
    IF cond.next THEN (IF (i + 1) % (2 ^ degree_exponent) = 0 THEN 1 ELSE 0)
    ELSE FixedValue(s_p_ \o cond.name, i)

ConditionSum(r, i) ==
    Sum([k \in 1..Len(registers[r].conditioned_updates) |->
            ConditionValue(registers[r].conditioned_updates[k][1], i)])

(***************************************************************************)
(* C1.                                                                     *)
(***************************************************************************)
\* C1: for every regular register R and every row i of the program, the
\* conditions of R's conditioned updates (first_step', the write flags, the
\* flags of the instructions that update R), read from the emitted tables on
\* row i, sum to 0 or 1.
C1_ConditionsExclusive ==
    Done =>
        \A r \in RegularRegisters \ Range(pc_name) :
            \A i \in 0..(Len(code_lines) - 1) : ConditionSum(r, i) \in {0, 1}

(***************************************************************************)
(* C2.                                                                     *)
(***************************************************************************)
\* the place of a statement in the part of the PIL that follows the source's
\* emissions: 3 read constraints (their columns and identities), 4 update
\* identities, 5 the line column, 6 free-input value witnesses, 7 program
\* constants, 8 the plookup
Stage(s) ==
    CASE IsCommit(s) /\ s.def = None -> 3
      [] IsIdentityOn(s, FALSE) -> 3
      [] IsIdentityOn(s, TRUE) -> 4
      [] s = line_column -> 5
      [] IsCommit(s) /\ s.def # None -> 6
      [] IsArray(s) -> 7
      [] s.kind = "PlookupIdentity" /\ s.left.selector = None
            /\ s.right.selector = None -> 8
      [] OTHER -> 0

IsNamespace(s) == s.kind = "Namespace" /\ s.name = s_Assembly

IsFirstStep(s) == s = ConstantArray(s_first_step, <<build_number(1)>>)

\* what convert appends once the source is consumed
OrderedTail(tail) ==
    LET stages == [k \in 1..Len(tail) |-> Stage(tail[k])]
        n(st) == Cardinality({k \in 1..Len(tail) : stages[k] = st})
    IN  /\ \A k \in 1..Len(tail) : stages[k] >= 3
        /\ \A k \in 1..(Len(tail) - 1) : stages[k] <= stages[k + 1]
        /\ Cardinality({k \in 1..Len(tail) : IsIdentityOn(tail[k], FALSE)})
              = Cardinality(AssignmentRegisters)
        /\ n(4) = Cardinality(RegularRegisters)
        /\ n(5) = 1
        /\ n(6) = Cardinality(AssignmentRegisters)
        /\ n(7) = Cardinality(Range(program_constant_names'))
        /\ n(8) = 1

C2_Step ==
    /\ (phase = "new" /\ phase' = "statements") =>
          Len(pil') = 2 /\ IsNamespace(pil'[1]) /\ IsFirstStep(pil'[2])
    /\ (phase = "statements" /\ phase' = "statements") => IsPrefix(pil, pil')
    /\ (phase = "statements" /\ phase' = "done") =>
          /\ IsPrefix(pil, Unwrap(output'))
          /\ IsNamespace(pil[1]) /\ IsFirstStep(pil[2])
          /\ OrderedTail(SubSeq(Unwrap(output'), Len(pil) + 1, Len(Unwrap(output'))))

\* C2: the returned PIL is the namespace, first_step, the emissions of the
\* source statements in source order, and then, appended only when the source
\* is consumed, the read constraints, the update identities, the line column,
\* the free-input value witnesses, the program-constant arrays and the plookup,
\* in this order.
C2_EmissionOrder == [][C2_Step]_vars

C2_Witness ==
    /\ Done
    /\ AssignmentRegisters # {} /\ instructions # EmptyMap
    /\ \E k \in 1..Len(Out) : Out[k] = witness_column(n_B, None)
    /\ Len(ProgramConstantArrays) >= 3

(***************************************************************************)
(* C3.                                                                     *)
(***************************************************************************)
\* C3: the program-constant arrays are emitted in the order in which
\* create_witness_fixed_pair registered their names.
C3_InsertionOrder ==
    Done => NamesOf(ProgramConstantArrays) = program_constant_names

\* C3 (amended): the program-constant arrays are emitted in the ascending byte
\* order of their names, one array for every registered name.
C3_NameOrder ==
    Done =>
        LET names == NamesOf(ProgramConstantArrays)
        IN  /\ Range(names) = Range(program_constant_names)
            /\ \A k \in 1..(Len(names) - 1) : LexLess(names[k], names[k + 1])

C3_Witness ==
    /\ Done
    /\ Len(ProgramConstantArrays) >= 3
    /\ NamesOf(ProgramConstantArrays) # program_constant_names

(***************************************************************************)
(* C4.                                                                     *)
(***************************************************************************)
Plookup == Out[Len(Out)]

PlookupLeft == NamesOf(Plookup.left.expressions)

PlookupRight == NamesOf(Plookup.right.expressions)

\* the names of the witness columns the PIL declares, in the order declared
DeclaredWitnesses == NamesOf(SelectSeq(Out, IsCommit))

\* C4: in the final plookup the fixed column at position k is p_W for the
\* witness W at position k, for every position k.
C4_AllPaired ==
    Done =>
        /\ Len(PlookupLeft) = Len(PlookupRight)
        /\ \A k \in 1..Len(PlookupLeft) : PlookupRight[k] = s_p_ \o PlookupLeft[k]

\* C4 (amended): in the final plookup the fixed column at position k is p_W
\* for the witness W at position k, except that the PC is paired with `line`;
\* the left-hand side lists the witnesses of the registered pairs in the order
\* of their registration (the order of their declarations in the PIL); and the
\* names of the program-constant arrays are exactly the p_W of the witnesses
\* W of the left-hand side other than the PC.
C4_PairedExceptPc ==
    Done =>
        LET pairs == {k \in 1..Len(PlookupLeft) : PlookupRight[k] # s_line}
        IN  /\ Len(PlookupLeft) = Len(PlookupRight)
            /\ \A k \in pairs : PlookupRight[k] = s_p_ \o PlookupLeft[k]
            /\ \A k \in 1..Len(PlookupLeft) \ pairs : pc_name = Some(PlookupLeft[k])
            /\ IsSome(pc_name) => \E k \in 1..Len(PlookupLeft) : k \notin pairs
            /\ SelectSeq(DeclaredWitnesses, LAMBDA w : w \in Range(PlookupLeft))
                  = PlookupLeft
            /\ Range(NamesOf(ProgramConstantArrays))
                  = {s_p_ \o PlookupLeft[k] : k \in pairs}

C4_Witness ==
    /\ Done
    /\ IsSome(pc_name)
    /\ Len(PlookupLeft) >= 4
    /\ \E k \in 2..Len(PlookupLeft) : PlookupRight[k] = s_line

(***************************************************************************)
(* C5, C6, C7: fatal errors.                                               *)
(***************************************************************************)
\* the loop of convert takes a statement in this step
TakesStatement == phase = "statements" /\ consumed' = consumed + 1

\* convert leaves its loop in this step
LeavesLoop == phase = "statements" /\ consumed' = consumed /\ phase' # "statements"

C5_Step ==
    TakesStatement =>
        LET st == Unwrap(statement')
        IN  (\/ st.kind = "RegisterDeclaration" /\ st.name \in DOMAIN registers
             \/ st.kind = "InstructionDeclaration" /\ st.name \in DOMAIN instructions)
            => phase' = "panic"

\* C5: declaring a register or an instruction whose name is already declared
\* aborts the compilation.
C5_DuplicateDeclarationIsFatal == [][C5_Step]_vars

IsOutput(p) == p.assignment_reg[1] = None /\ IsSome(p.assignment_reg[2])

IsOutputVia(p, reg) == IsOutput(p) /\ p.assignment_reg[2] = Some(Some(reg))

\* the instruction has two output parameters bound to one assignment register
HasDuplicateOutput(instr) ==
    \E j, k \in 1..Len(instr.params) :
        /\ j < k
        /\ IsOutput(instr.params[j]) /\ IsOutput(instr.params[k])
        /\ instr.params[j].assignment_reg[2] = instr.params[k].assignment_reg[2]

C6_Step ==
    TakesStatement =>
        LET st == Unwrap(statement')
        IN  (/\ st.kind = "Instruction"
             /\ st.name \in DOMAIN instructions
             /\ HasDuplicateOutput(instructions[st.name]))
            => phase' = "panic"

\* C6: an instruction call that binds two output parameters to the same
\* assignment register aborts the compilation; no code line is made of it.
C6_DuplicateOutputIsFatal == [][C6_Step]_vars

C7_Step ==
    (LeavesLoop /\ pc_name = None /\ code_lines = <<>> /\ instructions = EmptyMap) =>
        /\ phase' = "done"
        /\ LET plookup == Unwrap(output')[Len(Unwrap(output'))]
           IN  s_line \notin Range(NamesOf(plookup.right.expressions))

\* C7: a program that declares no PC (here: one of register declarations and
\* inline PIL only) compiles, and its plookup has no pair with `line`.
C7_NoPcCompiles == [][C7_Step]_vars

(***************************************************************************)
(* C8.                                                                     *)
(***************************************************************************)
HasWriteFlag(r) ==
    \E k \in 1..Len(line_lookup) :
        \E a \in DOMAIN registers :
            line_lookup[k][1] = s_reg_write_ \o a \o s_underscore \o r

\* the registers that the body of instruction declaration d updates
BodyUpdates(d) ==
    {Unwrap(extract_update(d.body[k].expr)[1]) :
        k \in {j \in 1..Len(d.body) :
                  /\ d.body[j].kind = "Expression"
                  /\ IsSome(extract_update(d.body[j].expr)[1])}}

UpdatedByInstruction(r) ==
    \E d \in InstructionDeclarations :
        d.name \in DOMAIN instructions /\ r \in BodyUpdates(d)

\* the regular registers with no write flag that no instruction updates
HeldRegisters ==
    {r \in RegularRegisters \ Range(pc_name) :
        ~HasWriteFlag(r) /\ ~UpdatedByInstruction(r)}

UpdateIdentitiesOf(r) ==
    SelectSeq(Out, LAMBDA s : IsIdentityOn(s, TRUE) /\ s.expr.left.name = r)

\* C8: the update identity of a regular register with no write flag that no
\* instruction updates is R' - R = 0.
C8_HoldIdentity ==
    Done =>
        \A r \in HeldRegisters :
            UpdateIdentitiesOf(r) =
                <<PolynomialIdentity(build_sub(next_reference(r), direct_reference(r)))>>

\* C8 (amended): the update identity of a regular register with no write flag
\* that no instruction updates is
\* R' - ((first_step' * 0) + ((1 - first_step') * R)) = 0.
C8_SeededHoldIdentity ==
    Done =>
        \A r \in HeldRegisters :
            UpdateIdentitiesOf(r) =
                <<PolynomialIdentity(build_sub(next_reference(r),
                    build_add(
                        build_mul(next_reference(s_first_step), build_number(0)),
                        build_mul(build_sub(build_number(1),
                                            next_reference(s_first_step)),
                                  direct_reference(r)))))>>

C8_Witness == Done /\ HeldRegisters # {} /\ instructions # EmptyMap

(***************************************************************************)
(* C9.                                                                     *)
(***************************************************************************)
\* `W <=Z= f(args)` where f is declared and its last parameter is an output
\* bound to Z with no static type
IsFunctionalForm(st) ==
    /\ st.kind = "FunctionalAssignment"
    /\ Len(st.write_regs) = 1 /\ IsSome(st.assign_reg)
    /\ st.function_name \in DOMAIN instructions
    /\ LET params == instructions[st.function_name].params
       IN  /\ params # <<>>
           /\ params[Len(params)].param_type = None
           /\ IsOutputVia(params[Len(params)], Unwrap(st.assign_reg))

\* the step does what the explicit call `f args, W` does
AsExplicitCall(st) ==
    LET e == handle_instruction(Conv, st.function_name,
                 Append(st.args, direct_reference(st.write_regs[1])))
    IN  IF e.panicked THEN phase' = "panic"
        ELSE phase' = "statements" /\ code_lines' = e.code_lines

AppendsCodeLine == phase' = "statements" /\ Len(code_lines') = Len(code_lines) + 1

C9_Step ==
    (TakesStatement /\ IsFunctionalForm(Unwrap(statement'))) =>
        AsExplicitCall(Unwrap(statement'))

C9_AddStep ==
    (/\ TakesStatement /\ IsFunctionalForm(Unwrap(statement'))
     /\ Unwrap(statement').function_name = n_add) => AppendsCodeLine

\* C9: the functional form `W <=Z= f(args)` appends the code line of the
\* explicit call `f args, W`, and for add(a: <=Z=, b: <=Z=, out: =Z=>) both
\* forms produce a code line.
C9_FunctionalAsExplicitAndAdd == [][C9_Step /\ C9_AddStep]_vars

\* C9 (amended): the functional form `W <=Z= f(args)` does what the explicit
\* call `f args, W` does: it appends the same code line when the call is
\* accepted and aborts when the call aborts.
C9_FunctionalAsExplicit == [][C9_Step]_vars

C9_Witness ==
    /\ phase = "statements" /\ IsSome(statement)
    /\ Unwrap(statement).kind = "FunctionalAssignment"
    /\ code_lines[Len(code_lines)].instruction = Some(Unwrap(statement).function_name)
    /\ code_lines[Len(code_lines)].write_regs # EmptyMap
    /\ code_lines[Len(code_lines)].value # EmptyMap

(***************************************************************************)
(* C10.                                                                    *)
(***************************************************************************)
\* C10: for every regular register R the returned PIL holds exactly one
\* update identity R' - U = 0 and exactly one identity first_step * R = 0.
C10_OneUpdateOneFirstRow ==
    Done =>
        \A r \in RegularRegisters :
            /\ Len(UpdateIdentitiesOf(r)) = 1
            /\ Count(Out, LAMBDA s : s = first_row_identity(r)) = 1

(***************************************************************************)
(* C11.                                                                    *)
(***************************************************************************)
\* the degree the returned PIL declares for its namespace
NamespaceDegree == Out[1].degree.value

\* C11: every program-constant array of the returned PIL has exactly one
\* entry per code line before its padding, is padded with zeroes, and defines
\* a column of exactly `degree` rows: its entries are no more than the degree
\* of the namespace.
C11_ArraysFillDegree ==
    Done =>
        \A k \in 1..Len(ProgramConstantArrays) :
            LET array == ProgramConstantArrays[k].def
            IN  /\ Len(array.values) = Len(code_lines)
                /\ array.pad_with_zeroes
                /\ Len(array.values) <= NamespaceDegree

(***************************************************************************)
(* C12.                                                                    *)
(***************************************************************************)
\* the code lines (counted from 0) that carry label l
LinesLabelled(l) ==
    {i \in 0..(Len(code_lines) - 1) : code_lines[i + 1].label = Some(l)}

\* the labels of the program
LabelNames ==
    {Unwrap(code_lines[i].label) :
        i \in {j \in 1..Len(code_lines) : IsSome(code_lines[j].label)}}

\* C12: in a program that compiles, every label is carried by exactly one code
\* line, and the label's position is the index of that line.
C12_LabelsUnique ==
    Done =>
        \A l \in LabelNames :
            LinesLabelled(l) = {compute_label_positions(Conv)[l]}

(***************************************************************************)
(* C13.                                                                    *)
(***************************************************************************)
\* the fixed column of literal parameter p of instruction instr
ParamColumn(instr, p) == s_p_ \o s_instr_ \o instr \o s_param_ \o p.name

\* code line i (counted from 0) calls instr with a label for its k-th parameter
PassesLabel(i, instr, k) ==
    LET line == code_lines[i + 1]
    IN  /\ line.instruction = Some(instr)
        /\ k <= Len(line.instruction_literal_args)
        /\ IsSome(line.instruction_literal_args[k])

\* C13: on a code line i that calls instruction I with label L for its literal
\* parameter `name`, the table p_instr_I_param_name holds the index of a code
\* line that carries L (code lines of every kind counted, L before or after
\* line i), which is the line that carries L where L is on one line only; on
\* every other line the table holds 0.
C13_LabelArgumentIsLineIndex ==
    Done =>
        \A instr \in DOMAIN instructions :
            LET params == instructions[instr].params
            IN  \A k \in 1..Len(params) :
                    IsLiteralParam(params[k]) =>
                        \A i \in 0..(Len(code_lines) - 1) :
                            LET entry == FixedValue(ParamColumn(instr, params[k]), i)
                                arg == code_lines[i + 1].instruction_literal_args[k]
                            IN  IF PassesLabel(i, instr, k)
                                THEN entry \in LinesLabelled(Unwrap(arg))
                                ELSE entry = 0

\* a label on line 1, passed by a call before it and by a call after it
C13_Witness ==
    /\ Done
    /\ Len(code_lines) = 3
    /\ PassesLabel(0, n_jmp, 1) /\ PassesLabel(2, n_jmp, 1)
    /\ LinesLabelled(n_l) = {1}
    /\ FixedValue(ParamColumn(n_jmp, LabelParam(n_l)), 0) = 1
    /\ FixedValue(ParamColumn(n_jmp, LabelParam(n_l)), 2) = 1

(***************************************************************************)
(* C14.                                                                    *)
(***************************************************************************)
\* the pairs (row, e) of the FreeInput(e) terms that the code lines from row i
\* on (rows counted from 0) read into assignment register reg
RECURSIVE FreeInputPairs(_, _)
FreeInputPairs(reg, i) ==
    IF i >= Len(code_lines) THEN <<>>
    ELSE LET line == code_lines[i + 1]
             terms == IF reg \in DOMAIN line.value THEN line.value[reg] ELSE <<>>
             free == SelectSeq(terms, LAMBDA t : t[2].tag = "FreeInput")
         IN  [k \in 1..Len(free) |-> Tuple(<<build_number(i), free[k][2].expr>>)]
             \o FreeInputPairs(reg, i + 1)

\* the declarations of reg_free_value in the returned PIL
FreeValueWitnesses(reg) ==
    SelectSeq(Out, LAMBDA s : IsCommit(s) /\ s.name = reg \o s_free_value)

\* the query `(i) query (items)`
Query(items) == Some([kind |-> "Query", params |-> <<s_i>>, body |-> Tuple(items)])

\* C14: for every assignment register A, the query of A_free_value is the
\* tuple of `i`, the PC column and then one pair (row, e) for every
\* FreeInput(e) term read into A on code line `row`, in the order of the rows,
\* and nothing else.
C14_FreeValueQuery ==
    Done =>
        \A a \in AssignmentRegisters :
            /\ FreeValueWitnesses(a) # <<>>
            /\ \A k \in 1..Len(FreeValueWitnesses(a)) :
                   FreeValueWitnesses(a)[k].def =
                       Query(<<direct_reference(s_i), direct_reference(Unwrap(pc_name))>>
                             \o FreeInputPairs(a, 0))

\* `A <=X= ${ ("input", A + 1) }` on row 1 gives (i, pc, (1, ("input", A + 1)))
C14_Witness ==
    /\ Done
    /\ n_X \in AssignmentRegisters
    /\ FreeInputPairs(n_X, 0) =
          <<Tuple(<<build_number(1),
                    Tuple(<<String(n_input),
                            build_add(direct_reference(n_A), build_number(1))>>)>>)>>
    /\ Unwrap(FreeValueWitnesses(n_X)[1].def).body.items[3] = FreeInputPairs(n_X, 0)[1]

(***************************************************************************)
(* C15 (under SpecTwice).                                                  *)
(***************************************************************************)
\* the second compilation of the source has ended
SecondEnded == IsSome(earlier) /\ phase \in {"done", "panic"}

AskedDegree(d) == IF d = None THEN 1024 ELSE Unwrap(d).degree

C16_StartStep ==
    (phase = "new" /\ phase' # "new") =>
        LET n == AskedDegree(statement')
        IN  IF \E e \in 0..10 : n = 2 ^ e
            THEN /\ phase' = "statements"
                 /\ pil'[1] = [kind |-> "Namespace", name |-> s_Assembly,
                               degree |-> build_number(n)]
            ELSE phase' = "panic"

\* C16: with a leading `degree n` the namespace is declared with degree n if
\* n is a power of two (1 included), and the compilation aborts if it is not;
\* with no degree statement the namespace is declared with degree 1024.
C16_DegreeIsPowerOfTwo == [][C16_StartStep]_vars

\* `degree 1;` has been accepted
C16_Witness ==
    /\ phase = "statements" /\ consumed = 0
    /\ statement = LeadingDegree(Some(1))
    /\ pil[1].degree = build_number(1)

(***************************************************************************)
(* C17 (under SpecProducts).                                               *)
(***************************************************************************)
\* the terms of e, in their order, each coefficient multiplied by c
TermsTimes(c, e) ==
    LET t == process_assignment_value(e)
    IN  IF t.panicked THEN NoTerms
        ELSE Terms([k \in 1..Len(t.terms) |-> <<c * t.terms[k][1], t.terms[k][2]>>])

\* the step appends a code line that reads the terms t into reg, or aborts if
\* t is no term list
ReadsTerms(reg, t) ==
    IF t.panicked THEN phase' = "panic"
    ELSE /\ phase' = "statements"
         /\ Len(code_lines') = Len(code_lines) + 1
         /\ code_lines'[Len(code_lines')].value = Insert(EmptyMap, reg, t.terms)

C17_Step ==
    TakesStatement =>
        LET st == Unwrap(statement')
        IN  (/\ st.kind = "Assignment" /\ IsSome(st.assign_reg)
             /\ st.value.tag = "BinaryOperation" /\ st.value.op = "Mul") =>
                LET l == st.value.left
                    r == st.value.right
                    reg == Unwrap(st.assign_reg)
                IN  /\ l.tag = "Number" => ReadsTerms(reg, TermsTimes(l.value, r))
                    /\ r.tag = "Number" => ReadsTerms(reg, TermsTimes(r.value, l))
                    /\ ReadsTerms(reg, process_assignment_value(build_mul(r, l)))

\* C17: a product of a constant c and an expression e normalises, with the
\* operands in either order, to the terms of e in their order with every
\* coefficient multiplied by c (and to nothing, aborting, if e does not
\* normalise); the product and the product of the swapped operands normalise
\* to the same.
C17_ProductCommutes == [][C17_Step]_vars

\* `A <=X= (A + 3) * 2` gives [(2, A), (6, Constant)]
C17_Witness ==
    /\ phase = "statements"
    /\ statement = Some(Assignment(<<n_A>>, Some(n_X),
                        build_mul(build_add(direct_reference(n_A), build_number(3)),
                                  build_number(2))))
    /\ code_lines[Len(code_lines)].value =
          Insert(EmptyMap, n_X,
                 << <<2, Component_Register(n_A)>>, <<6, Component_Constant>> >>)

(***************************************************************************)
(* C18.                                                                    *)
(***************************************************************************)
\* e1 + e2 + ... + en, added from the left
RECURSIVE LeftSum(_)
LeftSum(es) ==
    IF Len(es) = 1 THEN es[1]
    ELSE build_add(LeftSum(SubSeq(es, 1, Len(es) - 1)), es[Len(es)])

\* the names of S in ascending order
RECURSIVE Ascending(_)
Ascending(S) ==
    IF S = {} THEN <<>>
    ELSE LET least == CHOOSE x \in S : \A y \in S \ {x} : LexLess(x, y)
         IN  <<least>> \o Ascending(S \ {least})

\* a - (read_a_R1 * R1 + ... + read_a_Rn * Rn + a_const
\*      + a_read_free * a_free_value) = 0,  R1 < ... < Rn the regular registers
ReadConstraint(a) ==
    LET regs == Ascending(RegularRegisters)
    IN  PolynomialIdentity(build_sub(direct_reference(a),
            LeftSum([k \in 1..Len(regs) |->
                        build_mul(direct_reference(s_read_ \o a \o s_underscore \o regs[k]),
                                  direct_reference(regs[k]))]
                    \o <<direct_reference(a \o s_const),
                         build_mul(direct_reference(a \o s_read_free),
                                   direct_reference(a \o s_free_value))>>)))

\* an identity `a - e = 0` of assignment register a
IsConstraintOf(s, a) == IsIdentityOn(s, FALSE) /\ s.expr.left.name = a

\* C18: the returned PIL holds, for every assignment register A, exactly one
\* identity of A, which is A = sum of read_A_R * R over the non-assignment
\* registers R in name order + A_const + A_read_free * A_free_value; and no
\* identity of an assignment register is emitted while the source statements
\* are being processed.
C18_OneReadConstraint ==
    /\ Done =>
          \A a \in AssignmentRegisters :
              SelectSeq(Out, LAMBDA s : IsConstraintOf(s, a)) = <<ReadConstraint(a)>>
    /\ phase = "statements" =>
          \A a \in AssignmentRegisters :
              \A k \in 1..Len(pil) : ~IsConstraintOf(pil[k], a)

C18_Witness ==
    /\ Done
    /\ AssignmentRegisters # {}
    /\ Cardinality(RegularRegisters) >= 2
    /\ code_lines # <<>>

(***************************************************************************)
(* C19.                                                                    *)
(***************************************************************************)
C19_Step ==
    (LeavesLoop /\ code_lines = <<>>) =>
        /\ phase' = "done"
        /\ LET out == Unwrap(output')
           IN  /\ IsNamespace(out[1]) /\ IsFirstStep(out[2])
               /\ IsPrefix(pil, out)
               /\ OrderedTail(SubSeq(out, Len(pil) + 1, Len(out)))
               /\ \A k \in 3..Len(out) : IsArray(out[k]) => out[k].def.values = <<>>

\* C19: a program with no code lines compiles, and the PIL returned has the
\* namespace, first_step, the read constraints, the update identities, the
\* line column, the free-input value witnesses, the program-constant arrays
\* and the plookup; every program-constant array has no entry before its
\* padding.
C19_EmptyProgramCompiles == [][C19_Step]_vars

(***************************************************************************)
(* C20.                                                                    *)
(***************************************************************************)
\* the witness columns the returned PIL declares with a query
QueriedWitnesses == SelectSeq(Out, LAMBDA s : IsCommit(s) /\ s.def # None)

\* C20: the returned PIL declares A_free_value exactly once for every
\* assignment register A, declares R_free_value for no other register R, and
\* declares no other column with a query.
C20_FreeValuePerAssignmentRegister ==
    Done =>
        /\ \A r \in DOMAIN registers :
               Len(FreeValueWitnesses(r)) = IF registers[r].is_assignment THEN 1 ELSE 0
        /\ Range(NamesOf(QueriedWitnesses))
               = {a \o s_free_value : a \in AssignmentRegisters}
        /\ Len(QueriedWitnesses) = Cardinality(AssignmentRegisters)

C20_Witness ==
    /\ Done
    /\ AssignmentRegisters # {}
    /\ RegularRegisters \ Range(pc_name) # {}
    /\ Len(QueriedWitnesses) = 1

(***************************************************************************)
(* C21.                                                                    *)
(***************************************************************************)
\* the fixed column of the write flag of regular register r through a
WriteFlagColumn(a, r) == s_p_ \o s_reg_write_ \o a \o s_underscore \o r

\* a declaration of a stands before a declaration of r in the PIL emitted
DeclaredBefore(a, r) ==
    \E j, k \in 1..Len(pil) :
        j < k /\ pil[j] = witness_column(a, None) /\ pil[k] = witness_column(r, None)

\* the write flags that exist are those of the pairs (a, r) of an assignment
\* register a declared before a regular register r that is not the PC
WriteFlagsAsDeclared ==
    phase = "statements" =>
        \A a \in AssignmentRegisters :
            \A r \in {n_pc, n_X, n_A, n_B} :
                WriteFlagColumn(a, r) \in Range(program_constant_names)
                    <=> (/\ r \in RegularRegisters \ Range(pc_name)
                         /\ DeclaredBefore(a, r))

\* the writes of the code lines: row (from 0), assignment register, register
CodeLineWrites ==
    {w \in (0..(Len(code_lines) - 1)) \X {n_X} \X {n_pc, n_X, n_A, n_B} :
        /\ w[2] \in DOMAIN code_lines[w[1] + 1].write_regs
        /\ w[3] \in Range(code_lines[w[1] + 1].write_regs[w[2]])}

\* the value of fixed column `name` on row i in the PIL out
ArrayValue(out, name, i) ==
    LET arrays == SelectSeq(out, LAMBDA s : IsArray(s) /\ s.name = name)
    IN  IF arrays = <<>> \/ i >= Len(arrays[1].def.values) THEN 0
        ELSE arrays[1].def.values[i + 1].value

C21_Step ==
    /\ WriteFlagsAsDeclared'
    /\ LeavesLoop =>
          IF \E w \in CodeLineWrites :
                 WriteFlagColumn(w[2], w[3]) \notin Range(program_constant_names)
          THEN phase' = "panic"
          ELSE phase' = "done" =>
                  \A w \in CodeLineWrites :
                      ArrayValue(Unwrap(output'), WriteFlagColumn(w[2], w[3]), w[1]) = 1

UpdateIdentity(reg, e) == PolynomialIdentity(build_sub(next_reference(reg), e))

\* c1 * v1 + ... + cn * vn for the conditioned updates cu, in their order
UpdateSum(cu) == LeftSum([k \in 1..Len(cu) |-> build_mul(cu[k][1], cu[k][2])])

\* c1 + ... + cn
ConditionsSum(cu) == LeftSum([k \in 1..Len(cu) |-> cu[k][1]])

OneConstant(ts) == Len(ts) = 1 /\ ts[1][2].tag = "Constant"

\* the terms ts with every coefficient multiplied by c
TimesConstant(c, ts) == Terms([k \in 1..Len(ts) |-> <<c * ts[k][1], ts[k][2]>>])

\* the step takes an assignment of a product
TakesProduct ==
    /\ TakesStatement
    /\ Unwrap(statement').kind = "Assignment" /\ IsSome(Unwrap(statement').assign_reg)
    /\ Unwrap(statement').value.tag = "BinaryOperation"
    /\ Unwrap(statement').value.op = "Mul"

C24_ExactlyOneStep ==
    TakesProduct =>
        LET st == Unwrap(statement')
            reg == Unwrap(st.assign_reg)
            l == process_assignment_value(st.value.left)
            r == process_assignment_value(st.value.right)
        IN  IF l.panicked \/ r.panicked THEN phase' = "panic"
            ELSE IF OneConstant(l.terms) /\ ~OneConstant(r.terms)
            THEN ReadsTerms(reg, TimesConstant(l.terms[1][1], r.terms))
            ELSE IF OneConstant(r.terms) /\ ~OneConstant(l.terms)
            THEN ReadsTerms(reg, TimesConstant(r.terms[1][1], l.terms))
            ELSE phase' = "panic"

\* C24: a product l * r normalises only if exactly one of l and r normalises
\* to a single Constant term c, and then to the terms of the other side
\* scaled by c; in every other case the compilation aborts.
C24_ExactlyOneConstantSide == [][C24_ExactlyOneStep]_vars

C24_AtLeastOneStep ==
    TakesProduct =>
        LET st == Unwrap(statement')
            reg == Unwrap(st.assign_reg)
            l == process_assignment_value(st.value.left)
            r == process_assignment_value(st.value.right)
        IN  IF l.panicked \/ r.panicked THEN phase' = "panic"
            ELSE IF OneConstant(l.terms)
            THEN ReadsTerms(reg, TimesConstant(l.terms[1][1], r.terms))
            ELSE IF OneConstant(r.terms)
            THEN ReadsTerms(reg, TimesConstant(r.terms[1][1], l.terms))
            ELSE phase' = "panic"

\* C24 (amended): a product l * r normalises only if at least one of l and r
\* normalises to a single Constant term: to the terms of r scaled by l's
\* constant if l does, and else to the terms of l scaled by r's constant (a
\* product of two constants normalises to their product); in every other case
\* the compilation aborts.
C24_AtLeastOneConstantSide == [][C24_AtLeastOneStep]_vars

\* `A <=X= 2 * 3` gives [(6, Constant)]
C24_Witness ==
    /\ phase = "statements"
    /\ statement = Some(Assignment(<<n_A>>, Some(n_X),
                        build_mul(build_number(2), build_number(3))))
    /\ code_lines[Len(code_lines)].value =
          Insert(EmptyMap, n_X, << <<6, Component_Constant>> >>)

(***************************************************************************)
(* C23 and C25 (under SpecTables).                                         *)
(***************************************************************************)
\* the terms read into assignment register a on row i (rows counted from 0)
TermsRead(a, i) ==
    LET line == code_lines[i + 1]
    IN  IF a \in DOMAIN line.value THEN line.value[a] ELSE <<>>

\* the coefficients of the terms of ts that P holds of, in their order
Coefficients(ts, P(_)) ==
    LET sel == SelectSeq(ts, LAMBDA t : P(t[2]))
    IN  [k \in 1..Len(sel) |-> sel[k][1]]

IsFreeInputTerm(comp) == comp.tag = "FreeInput"

IsConstantTerm(comp) == comp.tag = "Constant"

\* row i is an instruction line that writes a register through a
WritesThrough(a, i) ==
    LET line == code_lines[i + 1]
    IN  /\ IsSome(line.instruction)
        /\ a \in DOMAIN line.write_regs
        /\ line.write_regs[a] # <<>>

\* C23: on an instruction line that writes a register through assignment
\* register A the table p_A_read_free holds 1, whatever coefficient a free
\* input read into A on that row has; on every other row it holds the
\* coefficient of a free-input term read into A on that row, and 0 if there
\* is none.
C23_ReadFreeTable ==
    Done =>
        \A a \in AssignmentRegisters :
            \A i \in 0..(Len(code_lines) - 1) :
                LET entry == FixedValue(s_p_ \o a \o s_read_free, i)
                    free == Coefficients(TermsRead(a, i), IsFreeInputTerm)
                IN  IF WritesThrough(a, i) THEN entry = 1
                    ELSE IF free = <<>> THEN entry = 0
                    ELSE entry \in Range(free)

\* `A <=X= 2 * ${..}` on row 0 and `inc 2 * ${..}, A` on row 1
C23_Witness ==
    /\ Done
    /\ Len(code_lines) = 2
    /\ ~WritesThrough(n_X, 0) /\ WritesThrough(n_X, 1)
    /\ Coefficients(TermsRead(n_X, 0), IsFreeInputTerm) = <<2>>
    /\ Coefficients(TermsRead(n_X, 1), IsFreeInputTerm) = <<2>>
    /\ FixedValue(s_p_ \o n_X \o s_read_free, 0) = 2
    /\ FixedValue(s_p_ \o n_X \o s_read_free, 1) = 1

\* C25: on every code line i and for every assignment register A,
\* p_read_A_R[i] is the sum of the coefficients of the Register(R) terms read
\* into A on the line, p_A_const[i] the sum of the coefficients of its
\* Constant terms and, on a line that is no instruction line, p_A_read_free[i]
\* the sum of the coefficients of its FreeInput terms.
C25_TablesSumCoefficients ==
    Done =>
        \A a \in AssignmentRegisters :
            \A i \in 0..(Len(code_lines) - 1) :
                LET ts == TermsRead(a, i)
                IN  /\ \A r \in RegularRegisters :
                           FixedValue(s_p_ \o s_read_ \o a \o s_underscore \o r, i) =
                               Sum(Coefficients(ts,
                                       LAMBDA comp : comp = Component_Register(r)))
                    /\ FixedValue(s_p_ \o a \o s_const, i) =
                           Sum(Coefficients(ts, IsConstantTerm))
                    /\ code_lines[i + 1].instruction = None =>
                           FixedValue(s_p_ \o a \o s_read_free, i) =
                               Sum(Coefficients(ts, IsFreeInputTerm))

(***************************************************************************)
(* C26 .. C29 (under SpecSorted): the steps of process_plookup.            *)
(***************************************************************************)
\* a step that calls process_plookup; lookup' holds its arguments
LookupStep == IsSome(lookup') /\ returned'.kind # "Columns"

CallNames(call) ==
    [j \in 1..Len(call.right.expressions) |-> call.right.expressions[j].name]

\* a plookup without a selector whose right-hand side names columns of the
\* machine only, the key column among them, and whose left-hand side evaluated
IntoMachine(call) ==
    /\ call.kind = "Plookup" /\ call.right.selector = None
    /\ \A j \in 1..Len(call.right.expressions) :
          LET e == call.right.expressions[j]
          IN  /\ e.tag = "PolynomialReference" /\ ~e.next
              /\ e.name \in {key_col} \cup DOMAIN witness_positions
    /\ key_col \in Range(CallNames(call))
    /\ \A j \in 1..Len(call.left) : call.left[j].ok

UnknownsOf(l) == {u \in Unknowns : l.value.coefficients[u] # 0}

IsNumber(l) == UnknownsOf(l) = {}

\* where the key column stands on the right, and the key on the left
KeyPosition(call) ==
    CHOOSE j \in 1..Len(call.left) :
        /\ CallNames(call)[j] = key_col
        /\ \A i \in 1..(j - 1) : CallNames(call)[i] # key_col

KeyOf(call) == call.left[KeyPosition(call)].value.offset

\* what rows hold for key in the column name: None if nothing
StoredFor(rows, key, name) ==
    IF \E j \in 1..Len(rows) : rows[j].key = key
    THEN rows[CHOOSE j \in 1..Len(rows) : rows[j].key = key]
             .values[witness_positions[name] + 1]
    ELSE None

KeysAscend(rows) == \A i, j \in 1..Len(rows) : (i < j) => rows[i].key < rows[j].key

\* every value that was stored before the step is stored after it
WriteOnce ==
    \A j \in 1..Len(data) : \A name \in DOMAIN witness_positions :
        LET before == StoredFor(data, data[j].key, name)
        IN  IsSome(before) => StoredFor(data', data[j].key, name) = before

\* C26 as it is stated: whenever a column of a lookup has a stored value, a
\* different known left-hand value gives the error 'Lookup mismatch' and an
\* unknown left-hand value gives an assignment of the stored value.
C26_StoredDecides ==
    LET call == Unwrap(lookup')
    IN  (IntoMachine(call) /\ IsNumber(call.left[KeyPosition(call)])) =>
            \A j \in 1..Len(call.left) :
                LET l == call.left[j]
                    was == IF CallNames(call)[j] = key_col THEN None
                           ELSE StoredFor(data, KeyOf(call), CallNames(call)[j])
                IN  IsSome(was) =>
                        /\ (IsNumber(l) /\ l.value.offset # Unwrap(was)) =>
                               returned' = LookupError(<<"Lookup mismatch">>)
                        /\ ~IsNumber(l) =>
                               /\ returned'.kind = "Assignments"
                               /\ \E i \in 1..Len(returned'.assignments) :
                                      returned'.assignments[i][2] = Unwrap(was)

C26_AsStated ==
    [][LookupStep => (KeysAscend(data') /\ WriteOnce /\ C26_StoredDecides)]_vars

\* how the column at position j of a lookup fares against what is stored
Verdict(call, j) ==
    LET l == call.left[j]
        was == StoredFor(data, KeyOf(call), CallNames(call)[j])
    IN  IF IsSome(was)
        THEN IF IsNumber(l)
             THEN IF l.value.offset = Unwrap(was) THEN "same" ELSE "Lookup mismatch"
             ELSE IF Cardinality(UnknownsOf(l)) = 1 THEN "solved" ELSE "Cannot solve"
        ELSE IF IsNumber(l) THEN "stores" ELSE "not known"

Failures == {"Lookup mismatch", "Cannot solve", "not known"}

\* the key column stands first and no column is named twice
KeyFirst(call) ==
    /\ CallNames(call)[1] = key_col
    /\ \A i, j \in 1..Len(call.left) : (i # j) => CallNames(call)[i] # CallNames(call)[j]

C26_FirstFailureDecides ==
    LET call == Unwrap(lookup')
        n == Len(call.left)
        failing == {j \in 2..n : Verdict(call, j) \in Failures}
        solved == SelectSeq([i \in 1..(n - 1) |-> i + 1],
                            LAMBDA j : Verdict(call, j) = "solved")
    IN  (IntoMachine(call) /\ IsNumber(call.left[1]) /\ KeyFirst(call)) =>
            IF failing # {}
            THEN \E j \in failing :
                    /\ \A i \in failing : j <= i
                    /\ returned' = LookupError(<<Verdict(call, j)>>)
            ELSE /\ returned'.kind = "Assignments"
                 /\ returned'.assignments =
                        [i \in 1..Len(solved) |->
                            <<CHOOSE u \in UnknownsOf(call.left[solved[i]]) : TRUE,
                              Unwrap(StoredFor(data, KeyOf(call),
                                               CallNames(call)[solved[i]]))>>]

\* C26: after any sequence of process_plookup calls the stored rows have
\* distinct keys, and a stored value never changes.  A later lookup with the
\* key column first (and no column named twice) stops at its first column
\* that fails: a stored value that differs from a known left-hand value fails
\* with 'Lookup mismatch', a stored value against a left-hand value of several
\* unknowns with 'Cannot solve', no stored value against an unknown left-hand
\* value with 'not known'.  If no column fails the lookup returns, for every
\* column with a stored value v and a left-hand value of the one unknown x,
\* the assignment x = v.
C26_WriteOnce ==
    [][LookupStep => (KeysAscend(data') /\ WriteOnce /\ C26_FirstFailureDecides)]_vars

\* key 1 has B = 2, and the lookup { 1, x } in { A, B } returned x = 2
C26_Witness ==
    /\ lookup = Some(Lookup("Plookup",
                     <<EvalOk(from_value(1)), EvalOk(from_witness_poly_value("x"))>>,
                     SelectedExpressions(None,
                         <<direct_reference(n_A), direct_reference(n_B)>>)))
    /\ StoredFor(data, 1, n_B) = Some(2)
    /\ returned.kind = "Assignments"
    /\ returned.assignments = <<(<<"x", 2>>)>>

\* C27: a call of process_plookup that returns an error leaves the stored data
\* as it was: no new row and no new value.
C27_FailedLookupStoresNothing ==
    [][(LookupStep /\ returned'.kind = "Err") => data' = data]_vars

\* a step that calls witness_col_values; lookup' holds the degree
ColumnsStep == returned'.kind = "Columns"

\* C28: witness_col_values returns the key column and one column for every
\* other witness, each of exactly `degree` entries; the key column is strictly
\* increasing: the stored keys in ascending order, then last + 1, last + 2, ..;
\* row j of another column holds the value stored for the j-th smallest key,
\* and 0 where nothing was stored or the row is padding.
C28_Columns ==
    LET degree_asked == Unwrap(lookup').degree
        columns == returned'.columns
        stored == Len(data)
        last == IF data = <<>> THEN 0 ELSE data[stored].key
    IN  /\ DOMAIN columns = {key_col} \cup DOMAIN witness_positions
        /\ \A name \in DOMAIN columns : Len(columns[name]) = degree_asked
        /\ \A i, j \in 1..Len(columns[key_col]) :
               (i < j) => columns[key_col][i] < columns[key_col][j]
        /\ \A j \in 1..Len(columns[key_col]) :
               columns[key_col][j] =
                   IF j <= stored THEN data[j].key ELSE last + (j - stored)
        /\ \A name \in DOMAIN witness_positions :
               \A j \in 1..Len(columns[name]) :
                   columns[name][j] =
                       IF j <= stored /\ IsSome(StoredFor(data, data[j].key, name))
                       THEN Unwrap(StoredFor(data, data[j].key, name))
                       ELSE 0

C28_ColumnsOfDegree == [][ColumnsStep => C28_Columns]_vars

\* C29: wherever the key column stands on the right-hand side of a lookup into
\* the machine, process_plookup does not crash, takes the left-hand value at
\* that position as the key, and stores or compares every other column: after
\* a lookup that succeeded each of them holds a value for the key.
C29_KeyAnywhere ==
    [][LookupStep =>
        LET call == Unwrap(lookup')
        IN  (IntoMachine(call) /\ IsNumber(call.left[KeyPosition(call)])) =>
                /\ returned'.kind # "Panic"
                /\ returned'.kind = "Assignments" =>
                       \A j \in 1..Len(call.left) :
                           CallNames(call)[j] # key_col =>
                               IsSome(StoredFor(data', KeyOf(call), CallNames(call)[j]))]_vars

(***************************************************************************)
(* C30 (under SpecFixed).                                                  *)
(***************************************************************************)
\* the value of a right-hand expression on a row of the fixed columns
ValueOnRow(e, row) ==
    IF e.tag = "Number" THEN e.value
    ELSE LET column == LookupFixedData.fixed_cols[e.name]
         IN  column[((row + (IF e.next THEN 1 ELSE 0)) % Len(column)) + 1]

\* a plookup without a selector on the right whose right-hand side names no
\* witness column and starts with a fixed column, with a known first
\* left-hand value and another left-hand value that is not known
FirstKnownOnly(call) ==
    /\ call.kind = "Plookup" /\ call.right.selector = None
    /\ \A j \in 1..Len(call.right.expressions) :
          LET e == call.right.expressions[j]
          IN  e.tag = "PolynomialReference" => e.name \notin LookupFixedData.witness_cols
    /\ call.right.expressions[1].tag = "PolynomialReference"
    /\ call.left[1].ok /\ IsNumber(call.left[1])
    /\ \E j \in 2..Len(call.left) : ~call.left[j].ok \/ ~IsNumber(call.left[j])

\* the rows (from 0) on which the first right-hand column holds the key
MatchingRows(call) ==
    LET column == LookupFixedData.fixed_cols[call.right.expressions[1].name]
    IN  {i \in 0..(Len(column) - 1) : column[i + 1] = call.left[1].value.offset}

\* C30: an applicable lookup whose first left-hand value is a known constant k
\* and that has an unknown left-hand value takes the lowest row on which the
\* first right-hand fixed column holds k: every assignment it returns makes a
\* left-hand component equal to the value of its right-hand expression on that
\* row; if no row holds k the lookup returns an error.
C30_FirstMatch ==
    IsSome(lookup) =>
        LET call == Unwrap(lookup)
        IN  FirstKnownOnly(call) =>
                IF MatchingRows(call) = {}
                THEN returned.kind = "Err"
                ELSE LET row == CHOOSE i \in MatchingRows(call) :
                                    \A h \in MatchingRows(call) : i <= h
                     IN  /\ returned.kind \in {"Assignments", "Err"}
                         /\ \A a \in Range(returned.assignments) :
                                \E j \in 2..Len(call.left) :
                                    LET l == call.left[j]
                                    IN  /\ l.ok /\ UnknownsOf(l) = {a[1]}
                                        /\ l.value.coefficients[a[1]] * a[2]
                                               + l.value.offset
                                             = ValueOnRow(call.right.expressions[j], row)

\* { 1, x } in { F, G }: F holds 1 on the rows 0 and 2, and x = G[0] = 5
C30_Witness ==
    /\ lookup = Some(Lookup("Plookup",
                     <<EvalOk(from_value(1)), EvalOk(from_witness_poly_value("x"))>>,
                     SelectedExpressions(None,
                         <<direct_reference(n_F), direct_reference(n_G)>>)))
    /\ Cardinality(MatchingRows(Unwrap(lookup))) = 2
    /\ returned = ReturnAssignments(<<(<<"x", 5>>)>>)

====
